---- MODULE Spec2Model ----
(***************************************************************************)
(* The standalone VQ bridge server (the WebSocket effect relay): the roster *)
(* of connections, the message counter, the message handler with its       *)
(* render / echo / catch branches, and generateTornadoEffect.              *)
(*                                                                         *)
(* JavaScript values are tagged records.  A frame on the wire is a string; *)
(* JSONParse decodes it or fails.  What a handler hands to ws.send is kept *)
(* as the object given to JSON.stringify.  Date.now() timestamps are left  *)
(* out of the outbound messages; renderTime is a nondeterministic draw.    *)
(* Of a particle, the fields that need cos/sin or carry only jitter        *)
(* (x, y, z, vx, vy, vz, ax, az, rotation, rotationSpeed) are left out.    *)
(***************************************************************************)
EXTENDS Integers, Sequences, FiniteSets, TLC

(* ------------------------------ bounds -------------------------------- *)
MaxConns == 3
MaxParticles == 2
MaxLayers == 2
MaxMessages == 2
GenMaxParticles == 3
GenMaxLayers == 3

(* ------------------------- program constants -------------------------- *)
PORT == 8765

Conns == 1..MaxConns

(* ------------------------- JavaScript values -------------------------- *)
Undefined == [t |-> "undefined"]
JNull == [t |-> "null"]
JNum(n) == [t |-> "num", n |-> n]
JStr(s) == [t |-> "str", s |-> s]
JArr(a) == [t |-> "arr", a |-> a]
JObj(f) == [t |-> "obj", f |-> f]

\* Reading a property of null or undefined throws a TypeError.
CanRead(v) == v.t \notin {"null", "undefined"}

\* v.k for a value whose properties can be read: an own property of an
\* object, undefined otherwise (numbers, strings and arrays have none of the
\* properties the server reads).
Get(v, k) ==
    IF v.t = "obj" /\ k \in DOMAIN v.f THEN v.f[k] ELSE Undefined

\* A result of JavaScript arithmetic: a finite integer or NaN.
NaN == [nan |-> TRUE, v |-> 0]
Fin(n) == [nan |-> FALSE, v |-> n]

\* A result of JavaScript arithmetic that is a fraction num/den, or NaN.
RatNaN == [nan |-> TRUE, num |-> 0, den |-> 1]
Rat(n, d) == [nan |-> FALSE, num |-> n, den |-> d]

(* --------------------------- frames on the wire ------------------------ *)
PositionText ==
    [ok |-> "\"position\":{\"x\":10,\"y\":20}",
     strx |-> "\"position\":{\"x\":\"10\",\"y\":20}",
     none |-> ""]

PositionValue ==
    [ok |-> JObj([x |-> JNum(10), y |-> JNum(20)]),
     strx |-> JObj([x |-> JStr("10"), y |-> JNum(20)]),
     none |-> Undefined]

ParametersText(n, l) ==
    "\"parameters\":{\"particleCount\":" \o ToString(n)
        \o ",\"spiralLayers\":" \o ToString(l)
        \o ",\"duration\":5,\"colorScheme\":\"fire\"}"

ParametersValue(n, l) ==
    JObj([particleCount |-> JNum(n), spiralLayers |-> JNum(l),
          duration |-> JNum(5), colorScheme |-> JStr("fire")])

RenderHead ==
    "{\"command\":\"render_effect\",\"effectType\":\"fire_tornado\",\"effectId\":7"

RenderValue(config) ==
    JObj([command |-> JStr("render_effect"), effectType |-> JStr("fire_tornado"),
          effectId |-> JNum(7), config |-> config])

\* Render requests whose config has a position of kind p and parameters n, l.
RenderFrame(p, n, l) ==
    << RenderHead \o ",\"config\":{" \o PositionText[p]
           \o (IF p = "none" THEN "" ELSE ",") \o ParametersText(n, l) \o "}}",
       RenderValue(IF p = "none"
                   THEN JObj([parameters |-> ParametersValue(n, l)])
                   ELSE JObj([position |-> PositionValue[p],
                              parameters |-> ParametersValue(n, l)])) >>

\* The well-formed frames of the model, each with the value JSON.parse gives.
Catalogue ==
    { <<"null", JNull>>,
      <<"42", JNum(42)>>,
      <<"\"hi\"", JStr("hi")>>,
      <<"[1]", JArr(<<JNum(1)>>)>>,
      <<"{}", JObj(<<>>)>>,
      <<"{\"command\":\"ping\"}", JObj([command |-> JStr("ping")])>>,
      <<"{\"command\":\"render_effect\"}",
        JObj([command |-> JStr("render_effect")])>>,
      <<"{\"command\":\"render_effect\",\"effectType\":\"ice_storm\"}",
        JObj([command |-> JStr("render_effect"),
              effectType |-> JStr("ice_storm")])>>,
      <<"{\"effectType\":\"fire_tornado\"}",
        JObj([effectType |-> JStr("fire_tornado")])>>,
      <<RenderHead \o "}",
        JObj([command |-> JStr("render_effect"),
              effectType |-> JStr("fire_tornado"), effectId |-> JNum(7)])>>,
      <<RenderHead \o ",\"config\":{\"position\":{\"x\":10,\"y\":20}}}",
        RenderValue(JObj([position |-> PositionValue["ok"]]))>>,
      <<"{\"command\":\"render_effect\",\"effectType\":\"fire_tornado\""
            \o ",\"config\":{" \o PositionText["ok"] \o ","
            \o ParametersText(1, 1) \o "}}",
        JObj([command |-> JStr("render_effect"),
              effectType |-> JStr("fire_tornado"),
              config |-> JObj([position |-> PositionValue["ok"],
                               parameters |-> ParametersValue(1, 1)])])>> }
    \cup { RenderFrame("ok", n, 1) : n \in 0..MaxParticles }
    \cup { RenderFrame("ok", 1, l) : l \in 0..MaxLayers }
    \cup { RenderFrame(p, n, 1) : p \in {"strx", "none"}, n \in 0..1 }

\* Frames that are not JSON.
Garbage == {"{bad", ""}

Frames == { e[1] : e \in Catalogue } \cup Garbage

\* What JSON.parse does with each frame: the decoded value, or a SyntaxError.
ParseTable ==
    [data \in Frames |->
        IF \E e \in Catalogue : e[1] = data
        THEN [ok |-> TRUE, value |-> (CHOOSE e \in Catalogue : e[1] = data)[2]]
        ELSE [ok |-> FALSE, value |-> Undefined]]

\* JSON.parse(data).
JSONParse(data) == ParseTable[data]

(* ----------------------- generateTornadoEffect ------------------------ *)
\* Math.random() is sampled in units of 1/200: a sample k in 0..199 stands
\* for k/200.  The samples the relay's renders draw from:
RelaySamples == {40, 180}

\* The values of Date.now() - startTime the model draws from.
RenderTimes == {0, 3}

Colors == {"#ffffff", "#ffff99", "#ffaa00", "#ff6600", "#cc3300"}

\* ColorOf with the first comparison written >= instead of >.
ColorOfInclusive(colorRand) ==
    IF colorRand >= 170 THEN "#ffffff"
    ELSE IF colorRand > 140 THEN "#ffff99"
    ELSE IF colorRand > 100 THEN "#ffaa00"
    ELSE IF colorRand > 60 THEN "#ff6600"
    ELSE "#cc3300"

\* The if / else-if chain on colorRand (0.85 = 170/200, 0.7 = 140/200,
\* 0.5 = 100/200, 0.3 = 60/200).
ColorOf(colorRand) ==
    IF colorRand > 170 THEN "#ffffff"
    ELSE IF colorRand > 140 THEN "#ffff99"
    ELSE IF colorRand > 100 THEN "#ffaa00"
    ELSE IF colorRand > 60 THEN "#ff6600"
    ELSE "#cc3300"

\* JSMod with the layer index advancing every second particle.
JSModEverySecond(i, v) ==
    IF v.t = "num" /\ v.n # 0
    THEN Fin((i \div 2) % (IF v.n < 0 THEN -v.n ELSE v.n))
    ELSE NaN

\* JSMod with the layer index taken as i itself, never wrapped.
JSModNoWrap(i, v) ==
    IF v.t = "num" /\ v.n # 0 THEN Fin(i) ELSE NaN

\* i % v for an index i >= 0: NaN when v is 0 or not a number.
JSMod(i, v) ==
    IF v.t = "num" /\ v.n # 0
    THEN Fin(i % (IF v.n < 0 THEN -v.n ELSE v.n))
    ELSE NaN

\* Radius with radiusScale taken as layerIndex, not divided by spiralLayers.
RadiusUnscaled(layerIndex, v) ==
    IF layerIndex.nan \/ v.t # "num" \/ v.n = 0
    THEN RatNaN
    ELSE Rat(8 - 4 * layerIndex.v, 1)

\* 8 - (layerIndex / v) * 4, as the fraction (8v - 4 layerIndex) / v.
Radius(layerIndex, v) ==
    IF layerIndex.nan \/ v.t # "num" \/ v.n = 0
    THEN RatNaN
    ELSE Rat(8 * v.n - 4 * layerIndex.v, v.n)

\* The number of iterations of  for (i = 0; i < particleCount; i++).
LoopCount(particleCount) ==
    IF particleCount.t = "num" /\ particleCount.n > 0 THEN particleCount.n ELSE 0

\* spiralRadius = 40 + (layerIndex * 60).
SpiralRadius(layerIndex) ==
    IF layerIndex.nan THEN NaN ELSE Fin(40 + layerIndex.v * 60)

\* Particle with ids counted from one.
ParticleIdFromOne(i, position, parameters, colorRand) ==
    LET layerIndex == JSMod(i, Get(parameters, "spiralLayers"))
    IN  [id |-> i + 1,
         x |-> [center |-> Get(position, "x"),
                spiralRadius |-> SpiralRadius(layerIndex)],
         radius |-> Radius(layerIndex, Get(parameters, "spiralLayers")),
         color |-> ColorOf(colorRand),
         life |-> 1,
         layer |-> layerIndex]

\* The record pushed by iteration i, given the iteration's colorRand.  Its x
\* is  position.x + Math.cos(angle) * spiralRadius, kept as its two operands
\* (z has the same spiralRadius); the fields drawn from Math.random() other
\* than color are left out.
Particle(i, position, parameters, colorRand) ==
    LET layerIndex == JSMod(i, Get(parameters, "spiralLayers"))
    IN  [id |-> i,
         x |-> [center |-> Get(position, "x"),
                spiralRadius |-> SpiralRadius(layerIndex)],
         radius |-> Radius(layerIndex, Get(parameters, "spiralLayers")),
         color |-> ColorOf(colorRand),
         life |-> 1,
         layer |-> layerIndex]

\* The flags of the returned object that are the same on every call.
QualityFlags ==
    [physics |-> TRUE, lighting |-> TRUE, renderQuality |-> "ultra",
     gpuAccelerated |-> TRUE, serverRendered |-> TRUE]

\* The iterations generateTornadoEffect(config) runs; 0 where it throws
\* before the loop.
Iterations(config) ==
    IF CanRead(config) /\ CanRead(Get(config, "parameters"))
    THEN LoopCount(Get(Get(config, "parameters"), "particleCount"))
    ELSE 0

\* generateTornadoEffect(config), with rand[i] the colorRand of iteration i:
\* it throws a TypeError when config or parameters cannot be read, and in
\* the first iteration when position cannot be read.
generateTornadoEffect(config, rand, renderTime) ==
    IF ~CanRead(config) \/ ~CanRead(Get(config, "parameters"))
    THEN [threw |-> TRUE, value |-> Undefined]
    ELSE LET position == Get(config, "position")
             parameters == Get(config, "parameters")
             n == LoopCount(Get(parameters, "particleCount"))
         IN  IF n > 0 /\ ~CanRead(position)
             THEN [threw |-> TRUE, value |-> Undefined]
             ELSE [threw |-> FALSE,
                   value |->
                     [position |-> position,
                      particles |->
                        [k \in 1..n |->
                           Particle(k - 1, position, parameters, rand[k - 1])],
                      duration |-> Get(parameters, "duration"),
                      spiralLayers |-> Get(parameters, "spiralLayers"),
                      particleCount |-> Get(parameters, "particleCount"),
                      colorScheme |-> Get(parameters, "colorScheme"),
                      flags |-> QualityFlags,
                      renderTime |-> renderTime]]

(* ------------------------------ state --------------------------------- *)
VARIABLES
    readyState,    \* each connection's ws.readyState
    wssClients,    \* wss.clients, kept by the WebSocket server object
    clients,       \* the set clients
    messageCount,  \* the counter messageCount
    sent,          \* what the latest event's handler passed to each connection's send
    last,          \* the latest event: its kind, connection, frame and log line
    inbound,       \* the number of 'message' events delivered since start
    proc,          \* the process: running, closing its listener, or exited
    gen,           \* a direct call of generateTornadoEffect: config, draws, result
    bridge,        \* the fields of the VortexQuantumBridge object
    host,          \* the page: the window globals, Date.now(), the polling timer
    call           \* the latest call on the bridge and what it did

vars == <<readyState, wssClients, clients, messageCount, sent, last, inbound,
          proc, gen, bridge, host, call>>

bridgeVars == <<bridge, host, call>>

relayVars == <<readyState, wssClients, clients, messageCount, sent, last,
               inbound, proc>>

NoneSent == [c \in Conns |-> <<>>]

Event(op, ws, data, log) == [op |-> op, conn |-> ws, data |-> data, log |-> log]

\* The process while the server listens, after wss.close() was called, and
\* after process.exit(status).
Running == [phase |-> "running", exit |-> <<>>]

Closing == [phase |-> "closing", exit |-> <<>>]

Exited(status) == [phase |-> "exited", exit |-> <<status>>]

\* The fields the bridge's constructor sets that the model follows.
\* initTime, which the constructor leaves undefined, is 0 until it is set.
Constructed ==
    [modulesConnected |-> <<>>,
     vqInstances |-> <<>>,
     currentInstanceIndex |-> 0,
     eventLog |-> <<>>,
     loadBalanceMode |-> "round-robin",
     failovers |-> 0,
     parallelBoost |-> 0,
     initTime |-> 0]

\* The names discoverVQInstances connects the globals window.vortexQuantum,
\* window.vortexQuantum2, window.vortexQuantumPrimary and
\* window.vortexQuantumSecondary under, in the order of vqChecks.
vqChecks == <<"VQ1", "VQ2", "VQ-Primary", "VQ-Secondary">>

\* The page before any VQ global is defined and before discovery starts.
HostIdle ==
    [globals |-> [k \in DOMAIN vqChecks |-> "undefined"],
     now |-> 1,
     checkInterval |-> "unset"]

NoCall == [op |-> "none"]

\* The bridge while only the relay or the generator is followed.
BridgeIdle == bridge = Constructed /\ host = HostIdle /\ call = NoCall

Init ==
    /\ readyState = [c \in Conns |-> "CONNECTING"]
    /\ wssClients = {}
    /\ clients = {}
    /\ messageCount = 0
    /\ sent = NoneSent
    /\ last = Event("start", 0, "", "")
    /\ inbound = 0
    /\ proc = Running
    /\ gen = [pc |-> "idle"]
    /\ BridgeIdle

(* ------------------------ the message handler ------------------------- *)
\* parsed.command === 'render_effect' && parsed.effectType === 'fire_tornado'
IsRender(parsed) ==
    /\ Get(parsed, "command") = JStr("render_effect")
    /\ Get(parsed, "effectType") = JStr("fire_tornado")

\* The object of the first ws.send of the render branch.
RenderedReply(parsed, effectData) ==
    [type |-> "effect_rendered",
     effectType |-> "fire_tornado",
     effectId |-> Get(parsed, "effectId"),
     renderTime |-> effectData.renderTime,
     data |-> effectData]

\* v.toFixed(0) throws a TypeError unless v is a number.
HasToFixed(v) == v.t = "num"

\* Whether the console.log of the render branch throws: it evaluates
\* parsed.config.position.x.toFixed(0) and ...y.toFixed(0).
LogThrows(parsed) ==
    LET position == Get(Get(parsed, "config"), "position")
    IN  \/ ~CanRead(position)
        \/ ~HasToFixed(Get(position, "x"))
        \/ ~HasToFixed(Get(position, "y"))

\* Broadcast with the whole config in place of config.parameters.
BroadcastWholeConfig(parsed) ==
    [type |-> "effect_broadcast",
     effectType |-> "fire_tornado",
     position |-> Get(Get(parsed, "config"), "position"),
     config |-> Get(parsed, "config")]

\* The object broadcast.
Broadcast(parsed) ==
    [type |-> "effect_broadcast",
     effectType |-> "fire_tornado",
     position |-> Get(Get(parsed, "config"), "position"),
     config |-> Get(Get(parsed, "config"), "parameters")]

\* Recipients without the  client !== ws  test.
RecipientsWithSender(ws) ==
    { client \in wssClients : readyState[client] = "OPEN" }

\* Recipients taken from every connection ever accepted, open or not.
RecipientsEverAccepted(ws) ==
    { client \in Conns : client # ws /\ readyState[client] # "CONNECTING" }

\* Recipients without the  client.readyState === WebSocket.OPEN  test.
RecipientsNoStateCheck(ws) == wssClients \ {ws}

\* The clients the forEach over wss.clients sends to.
Recipients(ws) ==
    { client \in wssClients : client # ws /\ readyState[client] = "OPEN" }

\* The object of the ws.send of the else branch.
EchoReply(parsed) ==
    [type |-> "response", original |-> parsed, processed |-> TRUE, port |-> PORT]

\* Caught with an error envelope sent back to the sender.
CaughtWithErrorReply ==
    [reply |-> <<[type |-> "error"]>>, broadcast |-> <<>>, log |-> "Parse error"]

\* What the catch block does: console.error, nothing sent.
Caught == [reply |-> <<>>, broadcast |-> <<>>, log |-> "Parse error"]

\* Dispatch with the echo envelope of the else branch also sent to the other
\* clients.
DispatchEchoToAll(parsed, rand, renderTime) ==
    IF ~CanRead(parsed) THEN Caught
    ELSE IF IsRender(parsed)
    THEN LET effect == generateTornadoEffect(Get(parsed, "config"), rand, renderTime)
         IN  IF effect.threw THEN Caught
             ELSE IF LogThrows(parsed)
             THEN [reply |-> <<RenderedReply(parsed, effect.value)>>,
                   broadcast |-> <<>>, log |-> "Parse error"]
             ELSE [reply |-> <<RenderedReply(parsed, effect.value)>>,
                   broadcast |-> <<Broadcast(parsed)>>, log |-> "Tornado rendered"]
    ELSE [reply |-> <<EchoReply(parsed)>>, broadcast |-> <<EchoReply(parsed)>>,
          log |-> ""]

\* The body of the try block for a parsed message: what is sent to the
\* sender, what is broadcast, and the line logged.
Dispatch(parsed, rand, renderTime) ==
    IF ~CanRead(parsed) THEN Caught
    ELSE IF IsRender(parsed)
    THEN LET effect == generateTornadoEffect(Get(parsed, "config"), rand, renderTime)
         IN  IF effect.threw THEN Caught
             ELSE IF LogThrows(parsed)
             THEN [reply |-> <<RenderedReply(parsed, effect.value)>>,
                   broadcast |-> <<>>, log |-> "Parse error"]
             ELSE [reply |-> <<RenderedReply(parsed, effect.value)>>,
                   broadcast |-> <<Broadcast(parsed)>>, log |-> "Tornado rendered"]
    ELSE [reply |-> <<EchoReply(parsed)>>, broadcast |-> <<>>, log |-> ""]

\* The whole handler's sends for a frame.
Handle(data, rand, renderTime) ==
    LET p == JSONParse(data)
    IN  IF p.ok THEN Dispatch(p.value, rand, renderTime) ELSE Caught

\* Whether the handler calls generateTornadoEffect for a frame.
Renders(data) ==
    LET p == JSONParse(data)
    IN  p.ok /\ CanRead(p.value) /\ IsRender(p.value)

\* The number of Math.random() colour draws the handler makes for a frame.
Draws(data) ==
    IF Renders(data) THEN Iterations(Get(JSONParse(data).value, "config")) ELSE 0

\* The values renderTime can take for a frame: Date.now() is read only
\* inside generateTornadoEffect.
Clock(data) == IF Renders(data) THEN RenderTimes ELSE {0}

(* ------------------------------ events -------------------------------- *)
\* Alive with events still handled after process.exit.
AliveAfterExit == TRUE

\* Events are handled only while the process has not exited.
Alive == proc.phase # "exited"

\* The server accepts connections until wss.close() is called.
Listening == proc.phase = "running"

\* Admits with a capacity of two connections.
AdmitsUpToTwo(ws) == Cardinality(clients) < 2

\* The connection handler adds every connection: no capacity test.
Admits(ws) == TRUE

\* Counted with the increment placed after a successful JSON.parse.
CountedIfParsed(data) ==
    IF JSONParse(data).ok THEN messageCount + 1 ELSE messageCount

\* messageCount++, the first statement of the message handler.
Counted(data) == messageCount + 1

\* RosterAfterMessage with the sender dropped from the roster.
RosterAfterMessageDropsSender(ws) == clients \ {ws}

\* The roster after the message handler: it has no statement on clients.
RosterAfterMessage(ws) == clients

\* RosterAfterError with the connection dropped from the roster.
RosterAfterErrorDropsIt(ws) == clients \ {ws}

\* The roster after the error handler: it has no statement on clients.
RosterAfterError(ws) == clients

\* Joined with the clients.add(ws) left out.
JoinedNothing(ws) == clients

\* The roster after the connection handler's clients.add(ws).
Joined(ws) == clients \cup {ws}

\* wss.on('connection'): the server object has added ws to wss.clients.
Accept(ws) ==
    /\ Listening
    /\ Admits(ws)
    /\ readyState[ws] = "CONNECTING"
    /\ readyState' = [readyState EXCEPT ![ws] = "OPEN"]
    /\ wssClients' = wssClients \cup {ws}
    /\ clients' = Joined(ws)
    /\ sent' = NoneSent
    /\ last' = Event("accept", ws, "", "Client connected")
    /\ UNCHANGED <<messageCount, inbound, proc, gen, bridgeVars>>

\* ws.on('message'), delivered on an open connection.
OnMessage(ws, data) ==
    /\ Alive
    /\ readyState[ws] = "OPEN"
    /\ inbound < MaxMessages
    /\ inbound' = inbound + 1
    /\ messageCount' = Counted(data)
    /\ \E rand \in [0..(Draws(data) - 1) -> RelaySamples], renderTime \in Clock(data) :
         LET h == Handle(data, rand, renderTime)
         IN  /\ sent' = [c \in Conns |->
                           (IF c = ws THEN h.reply ELSE <<>>)
                             \o (IF c \in Recipients(ws) THEN h.broadcast ELSE <<>>)]
             /\ last' = Event("message", ws, data, h.log)
    /\ clients' = RosterAfterMessage(ws)
    /\ UNCHANGED <<readyState, wssClients, proc, gen, bridgeVars>>

\* The transport starts closing a connection (a close frame or a socket
\* error): readyState leaves OPEN before any 'close' event is emitted.
TransportClosing(ws) ==
    /\ Alive
    /\ readyState[ws] = "OPEN"
    /\ readyState' = [readyState EXCEPT ![ws] = "CLOSING"]
    /\ sent' = NoneSent
    /\ last' = Event("closing", ws, "", "")
    /\ UNCHANGED <<wssClients, clients, messageCount, inbound, proc, gen, bridgeVars>>

\* Deleted with the delete left out.
DeletedNothing(ws) == clients

\* The roster after the close handler's clients.delete(ws).
Deleted(ws) == clients \ {ws}

\* ws.on('close'): the server object has removed ws from wss.clients.
OnClose(ws) ==
    /\ Alive
    /\ readyState[ws] \in {"OPEN", "CLOSING"}
    /\ readyState' = [readyState EXCEPT ![ws] = "CLOSED"]
    /\ wssClients' = wssClients \ {ws}
    /\ clients' = Deleted(ws)
    /\ sent' = NoneSent
    /\ last' = Event("close", ws, "", "Client disconnected")
    /\ UNCHANGED <<messageCount, inbound, proc, gen, bridgeVars>>

\* ws.on('error'): console.error only.
OnError(ws) ==
    /\ Alive
    /\ readyState[ws] \in {"OPEN", "CLOSING"}
    /\ sent' = NoneSent
    /\ last' = Event("error", ws, "", "WebSocket error")
    /\ clients' = RosterAfterError(ws)
    /\ UNCHANGED <<readyState, wssClients, messageCount, inbound, proc, gen, bridgeVars>>

Next ==
    \/ \E ws \in Conns : Accept(ws)
    \/ \E ws \in Conns, data \in Frames : OnMessage(ws, data)
    \/ \E ws \in Conns : TransportClosing(ws)
    \/ \E ws \in Conns : OnClose(ws)
    \/ \E ws \in Conns : OnError(ws)

Spec == Init /\ [][Next]_vars

(* ------------------- start, shutdown and fatal errors ------------------ *)
\* The frames the connections send in the lifecycle specification: one that
\* is not JSON, one echoed, one rendered.
LifeFrames ==
    {"{bad", "{\"command\":\"ping\"}", RenderFrame("ok", 1, 1)[1]}

\* process.on('SIGINT'): logs and calls wss.close(callback).  The server
\* stops listening at once.  What wss.close() does to the connections
\* already accepted depends on the ws release installed, which the
\* repository does not pin: up to ws 7 it terminates each of them
\* (readyState CLOSING, socket destroyed), from ws 8 on it leaves them open.
Sigint ==
    /\ Listening
    /\ proc' = Closing
    /\ \E terminates \in BOOLEAN :
         readyState' = [c \in Conns |->
                          IF terminates /\ readyState[c] = "OPEN"
                          THEN "CLOSING" ELSE readyState[c]]
    /\ sent' = NoneSent
    /\ last' = Event("sigint", 0, "", "Shutting down")
    /\ UNCHANGED <<wssClients, clients, messageCount, inbound, gen, bridgeVars>>

\* The callback given to wss.close(): the listening socket's close has
\* completed, which the net server reports once every accepted connection
\* has ended.  It logs and calls process.exit(0).
ListenerClosed ==
    /\ proc = Closing
    /\ wssClients = {}
    /\ proc' = Exited(0)
    /\ sent' = NoneSent
    /\ last' = Event("listener closed", 0, "", "Server closed")
    /\ UNCHANGED <<readyState, wssClients, clients, messageCount, inbound, gen, bridgeVars>>

\* wss.on('error'): logs and calls process.exit(1).
ServerError ==
    /\ Listening
    /\ proc' = Exited(1)
    /\ sent' = NoneSent
    /\ last' = Event("server error", 0, "", "Server error")
    /\ UNCHANGED <<readyState, wssClients, clients, messageCount, inbound, gen, bridgeVars>>

LifeNext ==
    \/ \E ws \in Conns : Accept(ws)
    \/ \E ws \in Conns, data \in LifeFrames : OnMessage(ws, data)
    \/ \E ws \in Conns : TransportClosing(ws)
    \/ \E ws \in Conns : OnClose(ws)
    \/ \E ws \in Conns : OnError(ws)
    \/ Sigint
    \/ ListenerClosed
    \/ ServerError

LifeSpec == Init /\ [][LifeNext]_vars

\* The event loop runs the callback of wss.close() once the listening
\* socket's close has completed, and a connection whose closing handshake
\* has begun is closed by the transport (at the latest by its close timer).
\* Nothing makes a client end a connection that is open.
LifeFairSpec ==
    /\ LifeSpec
    /\ WF_vars(ListenerClosed)
    /\ \A ws \in Conns : WF_vars(readyState[ws] = "CLOSING" /\ OnClose(ws))

(* ------------------------ the bridge's event log ----------------------- *)
\* The length above which logEvent cuts the log, and the length it cuts to.
LogLimit == 1000

LogKeep == 500

\* The number of logEvent calls followed.
MaxLogged == 1510

\* logEvent without the cut.
logEventNoCut(eventLog, eventType, eventData) ==
    Append(eventLog, [type |-> eventType, data |-> eventData])

\* logEvent(eventType, eventData): the log after the push and the
\* slice(-500) that follows it when the length exceeds 1000.
logEvent(eventLog, eventType, eventData) ==
    LET pushed == Append(eventLog, [type |-> eventType, data |-> eventData])
    IN  IF Len(pushed) > LogLimit
        THEN SubSeq(pushed, Len(pushed) - LogKeep + 1, Len(pushed))
        ELSE pushed

\* The eventLogHealth check of healthCheck().
eventLogHealth == IF Len(bridge.eventLog) < 2000 THEN "pass" ELSE "warn"

\* The relay and the generator while only the bridge is followed.
RelayIdle ==
    /\ readyState = [c \in Conns |-> "CONNECTING"]
    /\ wssClients = {}
    /\ clients = {}
    /\ messageCount = 0
    /\ sent = NoneSent
    /\ last = Event("start", 0, "", "")
    /\ inbound = 0
    /\ proc = Running
    /\ gen = [pc |-> "idle"]

LogInit ==
    /\ RelayIdle
    /\ bridge = Constructed
    /\ host = HostIdle
    /\ call = [op |-> "logEvent", n |-> 0]

\* A call of logEvent; the n-th call logs the data n.
LogCall ==
    /\ call.n < MaxLogged
    /\ call' = [op |-> "logEvent", n |-> call.n + 1]
    /\ bridge' = [bridge EXCEPT
                    !.eventLog = logEvent(@, "MODULE_EVENT", call.n + 1)]
    /\ UNCHANGED <<relayVars, gen, host>>

LogNext == LogCall

LogSpec == LogInit /\ [][LogNext]_vars

(* ----------------------- the bridge's VQ cluster ----------------------- *)
\* The instances connected, the execute calls made, the consecutive
\* getNextInstance calls followed and the shards of a sharded call.
MaxInstances == 3

MaxCalls == 2

MaxStreak == 4

MaxShards == 3

\* The globals defined when discovery scans them, and the fan-out calls made.
MaxFanInstances == 2

MaxFanCalls == 1

\* The names instances are connected under, and what typeof gives for the
\* (truthy) reference an instance is connected with.
InstanceNames == {"VQ1", "VQ2"}

RefKinds == {"object", "function"}

\* The instance record connectToVQInstance pushes; its counters
\* (requestCount, failureCount, avgResponseTime) and timestamps, which
\* nothing but getStatus reads, are left out.
Instance(name, ref) == [name |-> name, ref |-> ref, healthy |-> TRUE]

\* vqInstances.filter(i => i.healthy), as the positions kept, in order.
getHealthyInstances(vqInstances) ==
    LET kept[i \in 0..Len(vqInstances)] ==
            IF i = 0 THEN <<>>
            ELSE IF vqInstances[i].healthy THEN Append(kept[i - 1], i)
            ELSE kept[i - 1]
    IN  kept[Len(vqInstances)]

\* NextIndex without the modulo.
NextIndexNoWrap(currentInstanceIndex, length) == currentInstanceIndex + 1

\* (this.currentInstanceIndex + 1) % healthyInstances.length.
NextIndex(currentInstanceIndex, length) == (currentInstanceIndex + 1) % length

\* getNextInstance(): the value currentInstanceIndex has afterwards and the
\* position in vqInstances of the instance returned, 0 where it returns null
\* or undefined.
getNextInstance(b) ==
    LET healthyInstances == getHealthyInstances(b.vqInstances)
    IN  IF Len(healthyInstances) = 0
        THEN [index |-> b.currentInstanceIndex, instance |-> 0]
        ELSE LET index == NextIndex(b.currentInstanceIndex, Len(healthyInstances))
             IN  [index |-> index,
                  instance |-> IF index + 1 \in DOMAIN healthyInstances
                               THEN healthyInstances[index + 1] ELSE 0]

\* Fallback with no failover.
FallbackNone(b, instance) == 0

\* this.getHealthyInstances().find(i => i.name !== instance.name): the
\* position found, 0 where there is none.
Fallback(b, instance) ==
    LET others == { i \in DOMAIN b.vqInstances :
                      /\ b.vqInstances[i].healthy
                      /\ b.vqInstances[i].name # b.vqInstances[instance].name }
    IN  IF others = {} THEN 0 ELSE CHOOSE i \in others : \A j \in others : i <= j

\* What a task does on each of the instances it is started on: it resolves
\* ("ok"), rejects ("fail") or, for a sharded task, resolves with a null in
\* place of each shard's result ("nulls").
Tasks(instances, outcomes) == [instances -> outcomes]

\* What an execute call gave its caller.
Resolved(by, value) == [kind |-> "result", by |-> by, value |-> value]

Rejected(by, message) == [kind |-> "error", by |-> by, value |-> message]

NoInstances == Rejected(0, "No VQ instances available")

\* Whether an executeRoundRobin call is suspended at its first await.
Awaiting == call.op = "executeRoundRobin" /\ call.pc = "awaiting"

\* The call record after a step that is no getNextInstance and no execute
\* call: a suspended executeRoundRobin stays suspended.
Other(op) ==
    IF Awaiting THEN call
    ELSE [op |-> op, pc |-> "done", n |-> call.n, streak |-> <<>>]

ClusterInit ==
    /\ RelayIdle
    /\ bridge = Constructed
    /\ host = HostIdle
    /\ call = [op |-> "new", pc |-> "done", n |-> 0, streak |-> <<>>]

\* The bridge after connectToVQInstance(vqRef, name) with a truthy vqRef.
connectToVQInstance(b, ref, name) ==
    [b EXCEPT !.vqInstances = Append(@, Instance(name, ref)),
              !.eventLog = logEvent(@, "VQ_INSTANCE_CONNECTED", name)]

\* A call of connectToVQInstance(vqRef, name) with a truthy vqRef.
Connect(name, ref) ==
    /\ Len(bridge.vqInstances) < MaxInstances
    /\ bridge' = connectToVQInstance(bridge, ref, name)
    /\ call' = Other("connectToVQInstance")
    /\ UNCHANGED <<relayVars, gen, host>>

\* HealthEvents that logs a DOWN at every check that finds an instance
\* unhealthy.
HealthEventsEveryCheck(vqInstances, eventLog) ==
    LET logged[i \in 0..Len(vqInstances)] ==
            IF i = 0 THEN eventLog
            ELSE IF vqInstances[i].ref # "object"
            THEN logEvent(logged[i - 1], "VQ_INSTANCE_DOWN", vqInstances[i].name)
            ELSE logged[i - 1]
    IN  logged[Len(vqInstances)]

\* The events performHealthChecks logs for the instances up to position i.
HealthEvents(vqInstances, eventLog) ==
    LET logged[i \in 0..Len(vqInstances)] ==
            IF i = 0 THEN eventLog
            ELSE LET isHealthy == vqInstances[i].ref = "object"
                     wasHealthy == vqInstances[i].healthy
                 IN  IF wasHealthy /\ ~isHealthy
                     THEN logEvent(logged[i - 1], "VQ_INSTANCE_DOWN",
                                   vqInstances[i].name)
                     ELSE IF ~wasHealthy /\ isHealthy
                     THEN logEvent(logged[i - 1], "VQ_INSTANCE_RECOVERED",
                                   vqInstances[i].name)
                     ELSE logged[i - 1]
    IN  logged[Len(vqInstances)]

\* optimizeLoadBalancing that counts every connected instance.
optimizeLoadBalancingAll(vqInstances) ==
    IF Len(vqInstances) >= 2 THEN "parallel" ELSE "round-robin"

\* optimizeLoadBalancing().
optimizeLoadBalancing(vqInstances) ==
    IF Len(getHealthyInstances(vqInstances)) >= 2 THEN "parallel" ELSE "round-robin"

\* The bridge after performHealthChecks(): an instance is healthy if its
\* ref is an object.
performHealthChecks(b) ==
    LET checked == [i \in DOMAIN b.vqInstances |->
                      [b.vqInstances[i] EXCEPT
                         !.healthy = (b.vqInstances[i].ref = "object")]]
    IN  [b EXCEPT !.vqInstances = checked,
                  !.eventLog = HealthEvents(b.vqInstances, @),
                  !.loadBalanceMode = optimizeLoadBalancing(checked)]

\* performHealthChecks(), run by the health timer.
HealthCheck ==
    /\ bridge' = performHealthChecks(bridge)
    /\ call' = Other("performHealthChecks")
    /\ UNCHANGED <<relayVars, gen, host>>

\* A direct call of getNextInstance().
GetNext ==
    /\ ~Awaiting
    /\ Len(call.streak) < MaxStreak
    /\ LET next == getNextInstance(bridge)
       IN  /\ bridge' = [bridge EXCEPT !.currentInstanceIndex = next.index]
           /\ call' = [op |-> "getNextInstance", pc |-> "done", n |-> call.n,
                       streak |-> Append(call.streak, next.instance)]
    /\ UNCHANGED <<relayVars, gen, host>>

\* executeRoundRobin(taskFn) up to its first await: the instance is chosen
\* and given the task.
RoundRobinStart ==
    /\ ~Awaiting
    /\ call.n < MaxCalls
    /\ LET next == getNextInstance(bridge)
       IN  /\ bridge' = [bridge EXCEPT !.currentInstanceIndex = next.index]
           /\ call' = [op |-> "executeRoundRobin",
                       pc |-> IF next.instance = 0 THEN "done" ELSE "awaiting",
                       n |-> call.n + 1, streak |-> <<>>,
                       runs |-> IF next.instance = 0 THEN <<>>
                                ELSE <<next.instance>>,
                       task |-> <<>>, outcome |-> NoInstances]
    /\ UNCHANGED <<relayVars, gen, host>>

\* executeRoundRobin from the settling of the first task to its end; first
\* is what the task did on the chosen instance and retry what it does on
\* the fallback instance, if it is run there.
RoundRobinSettle(first, retry) ==
    /\ Awaiting
    /\ LET instance == call.runs[1]
           fallbackInstance == Fallback(bridge, instance)
       IN  IF first = "ok"
           THEN /\ retry = "ok"
                /\ bridge' = bridge
                /\ call' = [call EXCEPT !.pc = "done", !.task = <<first>>,
                                        !.outcome = Resolved(instance, "ok")]
           ELSE IF fallbackInstance # 0
           THEN /\ bridge' = [bridge EXCEPT !.failovers = @ + 1]
                /\ call' = [call EXCEPT
                              !.pc = "done",
                              !.task = <<first, retry>>,
                              !.runs = Append(@, fallbackInstance),
                              !.outcome =
                                  IF retry = "ok"
                                  THEN Resolved(fallbackInstance, "ok")
                                  ELSE Rejected(fallbackInstance, "retry failed")]
           ELSE /\ retry = "ok"
                /\ bridge' = bridge
                /\ call' = [call EXCEPT
                              !.pc = "done", !.task = <<first>>,
                              !.outcome = Rejected(instance, "task failed")]
    /\ UNCHANGED <<relayVars, gen, host>>

\* The positions in a sequence of positions.
Range(seq) == { seq[k] : k \in DOMAIN seq }

\* executeParallel(taskFn); fastest is the instance whose promise settles
\* first, which Promise.race follows.  A promise of a rejected task has been
\* turned by its catch into one resolved with null.
Parallel(task, fastest) ==
    /\ ~Awaiting
    /\ call.n < MaxFanCalls
    /\ LET instances == getHealthyInstances(bridge.vqInstances)
           done(runs, outcome) ==
               [op |-> "executeParallel", pc |-> "done", n |-> call.n + 1,
                streak |-> <<>>, task |-> task, runs |-> runs,
                outcome |-> outcome]
       IN  IF Len(instances) = 0
           THEN /\ fastest = 0
                /\ bridge' = bridge
                /\ call' = done(<<>>, NoInstances)
           ELSE IF Len(instances) = 1
           THEN /\ fastest = instances[1]
                /\ bridge' = bridge
                /\ call' = done(instances,
                                IF task[fastest] = "ok"
                                THEN Resolved(fastest, "ok")
                                ELSE Rejected(fastest, "task failed"))
           ELSE /\ fastest \in Range(instances)
                /\ bridge' = [bridge EXCEPT !.parallelBoost = @ + 1]
                /\ call' = done(instances,
                                IF task[fastest] = "ok"
                                THEN Resolved(fastest, "ok")
                                ELSE Resolved(fastest, "null"))
    /\ UNCHANGED <<relayVars, gen, host>>

\* The shard list of a sharded call: the shards 1..m.
Shards(m) == [k \in 1..m |-> k]

\* shards.slice(from, to), with from and to counted from 0.
Slice(shards, from, to) ==
    SubSeq(shards, from + 1, IF to < Len(shards) THEN to ELSE Len(shards))

\* What a sharded task resolves with for its slice: the shards themselves,
\* or a null (written 0) for each.
Returned(kind, instanceShards) ==
    IF kind = "nulls" THEN [k \in DOMAIN instanceShards |-> 0] ELSE instanceShards

\* results.flat().filter(r => r !== null), for results that are null (a
\* rejected task, written <<0>>) or lists.
FlatNonNull(results) ==
    LET joined[i \in 0..Len(results)] ==
            IF i = 0 THEN <<>> ELSE joined[i - 1] \o results[i]
    IN  SelectSeq(joined[Len(results)], LAMBDA r : r # 0)

\* executeSharded(taskFn, shards) with a shard list.
Sharded(task, m) ==
    /\ ~Awaiting
    /\ call.n < MaxFanCalls
    /\ LET instances == getHealthyInstances(bridge.vqInstances)
           shards == Shards(m)
           done(runs, given, outcome) ==
               [op |-> "executeSharded", pc |-> "done", n |-> call.n + 1,
                streak |-> <<>>, task |-> task, runs |-> runs,
                shards |-> shards, given |-> given, outcome |-> outcome]
       IN  IF Len(instances) = 0
           THEN /\ bridge' = bridge
                /\ call' = done(<<>>, <<>>, NoInstances)
           ELSE IF Len(instances) = 1
           THEN /\ bridge' = bridge
                /\ call' = done(instances, <<shards>>,
                                IF task[instances[1]] = "fail"
                                THEN Rejected(instances[1], "task failed")
                                ELSE Resolved(instances[1],
                                              Returned(task[instances[1]], shards)))
           ELSE LET shardsPerInstance ==
                        (Len(shards) + Len(instances) - 1) \div Len(instances)
                    given == [idx \in 1..Len(instances) |->
                                Slice(shards, (idx - 1) * shardsPerInstance,
                                      idx * shardsPerInstance)]
                    results == [idx \in 1..Len(instances) |->
                                  IF task[instances[idx]] = "fail" THEN <<0>>
                                  ELSE Returned(task[instances[idx]], given[idx])]
                IN  /\ bridge' = bridge
                    /\ call' = done(instances, given,
                                    Resolved(0, FlatNonNull(results)))
    /\ UNCHANGED <<relayVars, gen, host>>

\* The positions of the instances that are healthy.
Healthy == Range(getHealthyInstances(bridge.vqInstances))

ClusterNext ==
    \/ \E name \in InstanceNames, ref \in RefKinds : Connect(name, ref)
    \/ HealthCheck
    \/ GetNext
    \/ RoundRobinStart
    \/ \E first, retry \in {"ok", "fail"} : RoundRobinSettle(first, retry)

ClusterSpec == ClusterInit /\ [][ClusterNext]_vars

(* ------------------ discovery and the fan-out calls -------------------- *)
\* The windows in which at most MaxFanInstances of the four globals are
\* defined, each an object or a function.
Windows ==
    { globals \in [DOMAIN vqChecks -> {"undefined"} \cup RefKinds] :
        Cardinality({ k \in DOMAIN vqChecks : globals[k] # "undefined" })
            <= MaxFanInstances }

\* The bridge after the forEach over vqChecks: every global that is defined
\* is connected, in order.
Scanned(b, globals) ==
    LET connected[k \in 0..Len(vqChecks)] ==
            IF k = 0 THEN b
            ELSE IF globals[k] # "undefined"
            THEN connectToVQInstance(connected[k - 1], globals[k], vqChecks[k])
            ELSE connected[k - 1]
    IN  connected[Len(vqChecks)]

FanInit ==
    /\ RelayIdle
    /\ bridge = Constructed
    /\ host \in { [HostIdle EXCEPT !.globals = globals] : globals \in Windows }
    /\ call = [op |-> "new", pc |-> "done", n |-> 0, streak |-> <<>>]

\* discoverVQInstances(), called once by initialize(): the scan of
\* vqChecks, then setInterval for the polling and for the health checks.
Discover ==
    /\ host.checkInterval = "unset"
    /\ bridge' = Scanned(bridge, host.globals)
    /\ host' = [host EXCEPT !.checkInterval = "running"]
    /\ call' = Other("discoverVQInstances")
    /\ UNCHANGED <<relayVars, gen>>

FanNext ==
    \/ Discover
    \/ HealthCheck
    \/ \E task \in Tasks(Healthy, {"ok", "fail"}), fastest \in 0..MaxFanInstances :
           Parallel(task, fastest)
    \/ \E task \in Tasks(Healthy, {"ok", "fail", "nulls"}), m \in 0..MaxShards :
           Sharded(task, m)

FanSpec == FanInit /\ [][FanNext]_vars

(* -------------------------- discovery polling -------------------------- *)
\* The period of the polling timer and the time after which it gives up,
\* in milliseconds.
PollEvery == 100

StopAfter == 10000

\* How long after the previous step of the clock a tick of the polling
\* timer runs: on time, or held back by the page.
Delays == {PollEvery, StopAfter}

\* hasInstance that finds nothing.
hasInstanceNever(b, name) == FALSE

\* hasInstance(name).
hasInstance(b, name) == \E i \in DOMAIN b.vqInstances : b.vqInstances[i].name = name

\* The bridge after one of the two tests of a tick: the global numbered k
\* is connected under its name if it is defined and has no instance yet.
Polled(b, k) ==
    IF host.globals[k] # "undefined" /\ ~hasInstance(b, vqChecks[k])
    THEN connectToVQInstance(b, host.globals[k], vqChecks[k])
    ELSE b

\* The page defines one more of the globals.
Define(k, ref) ==
    /\ host.globals[k] = "undefined"
    /\ Cardinality({ g \in DOMAIN vqChecks : host.globals[g] # "undefined" })
           < MaxFanInstances
    /\ host' = [host EXCEPT !.globals[k] = ref]
    /\ call' = Other("window")
    /\ UNCHANGED <<relayVars, gen, bridge>>

\* A tick of the polling timer, delay after the clock's last step.
Tick(delay) ==
    /\ host.checkInterval = "running"
    /\ LET now == host.now + delay
           found == Polled(Polled(bridge, 1), 2)
           seesTwo == Len(found.vqInstances) >= 2
           initTime == IF bridge.initTime = 0 THEN now ELSE bridge.initTime
       IN  /\ bridge' = [found EXCEPT
                           !.loadBalanceMode =
                               IF seesTwo THEN optimizeLoadBalancing(found.vqInstances)
                               ELSE @,
                           !.initTime = initTime]
           /\ host' = [host EXCEPT
                         !.now = now,
                         !.checkInterval =
                             IF seesTwo \/ now - initTime > StopAfter
                             THEN "cleared" ELSE "running"]
    /\ call' = Other("tick")
    /\ UNCHANGED <<relayVars, gen>>

DiscoverNext ==
    \/ Discover
    \/ \E k \in DOMAIN vqChecks, ref \in RefKinds : Define(k, ref)
    \/ \E delay \in Delays : Tick(delay)
    \/ HealthCheck

DiscoverSpec == FanInit /\ [][DiscoverNext]_vars

\* The timer keeps firing while it is not cleared.
DiscoverFairSpec == DiscoverSpec /\ WF_vars(\E delay \in Delays : Tick(delay))

(* --------------------------- health monitoring ------------------------ *)
\* The times an instance's ref is replaced.
MaxReplaced == 2

\* The values loadBalanceMode takes.
LoadBalanceModes == {"round-robin", "parallel", "sharding"}

\* What an instance's ref can be replaced by: an object, a function or null.
Refs == RefKinds \cup {"null"}

\* A caller sets bridge.loadBalanceMode.
SetMode(mode) ==
    /\ bridge.loadBalanceMode # mode
    /\ bridge' = [bridge EXCEPT !.loadBalanceMode = mode]
    /\ call' = Other("loadBalanceMode")
    /\ UNCHANGED <<relayVars, gen, host>>

\* The ref of the instance at position i is replaced: the VQ system behind
\* it went away or came back.
Replace(i, ref) ==
    /\ call.n < MaxReplaced
    /\ i \in DOMAIN bridge.vqInstances
    /\ bridge.vqInstances[i].ref # ref
    /\ bridge' = [bridge EXCEPT !.vqInstances[i].ref = ref]
    /\ call' = [Other("ref") EXCEPT !.n = @ + 1]
    /\ UNCHANGED <<relayVars, gen, host>>

HealthNext ==
    \/ Discover
    \/ HealthCheck
    \/ \E mode \in LoadBalanceModes : SetMode(mode)
    \/ \E i \in 1..Len(vqChecks), ref \in Refs : Replace(i, ref)

HealthSpec == FanInit /\ [][HealthNext]_vars

(* ----------------------------- module events ------------------------- *)
\* The calls of registerModule, unregisterModule and emitModuleEvent made.
MaxModuleCalls == 3

ModuleIds == {"a", "b"}

\* The callbacks argument of registerModule, for the one event type that is
\* emitted: null, an object without a callback for the type, or an object
\* whose callback for it returns or throws.
Callbacks == {"null", "none", "returns", "throws"}

\* The position of the first module registered under moduleId, 0 where
\* find gives undefined.
Find(modulesConnected, moduleId) ==
    LET found == { i \in DOMAIN modulesConnected : modulesConnected[i].id = moduleId }
    IN  IF found = {} THEN 0 ELSE CHOOSE i \in found : \A j \in found : i <= j

\* The call record of the module calls.
ModuleCall(op, fields) ==
    [op |-> op, pc |-> "done", n |-> call.n + 1, streak |-> <<>>] @@ fields

\* registerModule(moduleId, moduleName, callbacks).
Register(moduleId, callbacks) ==
    /\ call.n < MaxModuleCalls
    /\ bridge' = [bridge EXCEPT
                    !.modulesConnected =
                        Append(@, [id |-> moduleId, callbacks |-> callbacks,
                                   events |-> <<>>]),
                    !.eventLog = logEvent(@, "MODULE_REGISTERED", moduleId)]
    /\ call' = ModuleCall("registerModule", <<>>)
    /\ UNCHANGED <<relayVars, gen, host>>

\* unregisterModule(moduleId).
Unregister(moduleId) ==
    /\ call.n < MaxModuleCalls
    /\ bridge' = [bridge EXCEPT
                    !.modulesConnected = SelectSeq(@, LAMBDA m : m.id # moduleId),
                    !.eventLog = logEvent(@, "MODULE_UNREGISTERED", moduleId)]
    /\ call' = ModuleCall("unregisterModule", <<>>)
    /\ UNCHANGED <<relayVars, gen, host>>

\* executeOnVQ(taskFn) called by emitModuleEvent, in the mode the bridge is
\* in: the bridge afterwards and the instances the task was run on.  A
\* sharded call is given no shards and runs the task on the first healthy
\* instance.
Forwarded(b, task) ==
    LET instances == getHealthyInstances(b.vqInstances)
    IN  IF b.loadBalanceMode = "parallel"
        THEN [bridge |-> IF Len(instances) >= 2
                         THEN [b EXCEPT !.parallelBoost = @ + 1] ELSE b,
              given |-> instances]
        ELSE IF b.loadBalanceMode = "sharding"
        THEN [bridge |-> b,
              given |-> IF Len(instances) = 0 THEN <<>> ELSE <<instances[1]>>]
        ELSE LET next == getNextInstance(b)
                 chosen == [b EXCEPT !.currentInstanceIndex = next.index]
                 fallbackInstance ==
                     IF next.instance = 0 THEN 0 ELSE Fallback(b, next.instance)
             IN  IF next.instance = 0
                 THEN [bridge |-> chosen, given |-> <<>>]
                 ELSE IF task[next.instance] = "fail" /\ fallbackInstance # 0
                 THEN [bridge |-> [chosen EXCEPT !.failovers = @ + 1],
                       given |-> <<next.instance, fallbackInstance>>]
                 ELSE [bridge |-> chosen, given |-> <<next.instance>>]

\* emitModuleEvent(moduleId, eventType, eventData); task is what the
\* forwarding task does on each healthy instance.  The call's event data is
\* the number of the call.
Emit(moduleId, task) ==
    /\ call.n < MaxModuleCalls
    /\ LET found == Find(bridge.modulesConnected, moduleId)
           event == [moduleId |-> moduleId, type |-> "evt", data |-> call.n + 1]
           pushed == [bridge EXCEPT
                        !.modulesConnected[found].events = Append(@, event),
                        !.eventLog = logEvent(@, "MODULE_EVENT", event)]
           callbacks == bridge.modulesConnected[found].callbacks
           forwarded == Forwarded(pushed, task)
       IN  IF found = 0
           THEN /\ bridge' = bridge
                /\ call' = ModuleCall("emitModuleEvent",
                                      [module |-> 0, event |-> event,
                                       returned |-> "false", called |-> FALSE,
                                       given |-> <<>>])
           ELSE IF callbacks = "null"
           THEN /\ bridge' = pushed
                /\ call' = ModuleCall("emitModuleEvent",
                                      [module |-> found, event |-> event,
                                       returned |-> "TypeError", called |-> FALSE,
                                       given |-> <<>>])
           ELSE IF Len(bridge.vqInstances) > 0
           THEN /\ bridge' = forwarded.bridge
                /\ call' = ModuleCall("emitModuleEvent",
                                      [module |-> found, event |-> event,
                                       returned |-> "true",
                                       called |-> callbacks \in {"returns", "throws"},
                                       given |-> forwarded.given])
           ELSE /\ bridge' = pushed
                /\ call' = ModuleCall("emitModuleEvent",
                                      [module |-> found, event |-> event,
                                       returned |-> "true",
                                       called |-> callbacks \in {"returns", "throws"},
                                       given |-> <<>>])
    /\ UNCHANGED <<relayVars, gen, host>>

\* The bridges module calls are made on: the first globals of the window
\* were defined and scanned, the health checks have run or not, and the mode
\* is any of the three.
Clusters ==
    LET windows == { globals \in Windows :
                       \A k \in DOMAIN vqChecks :
                           (k > 1 /\ globals[k] # "undefined")
                               => globals[k - 1] # "undefined" }
        scanned == { Scanned(Constructed, globals) : globals \in windows }
        checked == scanned \cup { performHealthChecks(b) : b \in scanned }
    IN  { [b EXCEPT !.loadBalanceMode = mode] :
            b \in checked, mode \in LoadBalanceModes }

EmitInit ==
    /\ RelayIdle
    /\ bridge \in Clusters
    /\ host = [HostIdle EXCEPT !.checkInterval = "running"]
    /\ call = [op |-> "new", pc |-> "done", n |-> 0, streak |-> <<>>]

EmitNext ==
    \/ \E moduleId \in ModuleIds, callbacks \in Callbacks : Register(moduleId, callbacks)
    \/ \E moduleId \in ModuleIds : Unregister(moduleId)
    \/ \E moduleId \in ModuleIds, task \in Tasks(Healthy, {"ok", "fail"}) :
           Emit(moduleId, task)

EmitSpec == EmitInit /\ [][EmitNext]_vars

(* ------------------ the optimizer service (Foundry world) ------------- *)
\* The chat messages and the combats of a world, and its compendium packs.
MaxDocs == 1

MaxPacks == 1

\* The frame rate the optimizer asks for.
DesiredFPS == 120

\* The frame rates core.maxFPS, its range's maximum and the ticker start at.
CoreFPS == {60, DesiredFPS}

\* A chat message is older than the retention cutoff or not; a combat is
\* idle (not started, no turns) or started.
MessageKinds == {"old", "recent"}

CombatKinds == {"idle", "started"}

SeqsUpTo(kinds, n) == UNION { [1..k -> kinds] : k \in 0..n }

\* The worlds optimize and dryRun are called in.  indexed is the number of
\* packs whose index has been fetched.
Worlds ==
    LET worlds ==
            { [isGM |-> isGM, messages |-> messages, combats |-> combats,
               packs |-> packs, indexed |-> 0, maxFPS |-> maxFPS,
               rangeMax |-> rangeMax, softShadows |-> softShadows,
               ticker |-> 60] :
                isGM \in BOOLEAN,
                messages \in SeqsUpTo(MessageKinds, MaxDocs),
                combats \in SeqsUpTo(CombatKinds, MaxDocs),
                packs \in 0..MaxPacks,
                maxFPS \in CoreFPS, rangeMax \in CoreFPS,
                softShadows \in BOOLEAN }
    IN  { game \in worlds : game.maxFPS <= game.rangeMax }

\* The option flags of a call.
Options ==
    [doCleanupChat : BOOLEAN, doCleanupInactiveCombats : BOOLEAN,
     doRebuildCompendiumIndexes : BOOLEAN, doCorePerformanceTweaks : BOOLEAN]

\* _previewCorePerformanceChanges(): the value core.maxFPS would be set to
\* (0 for no change) and whether core.softShadows would be switched off.
previewCorePerformanceChanges(game) ==
    LET next == IF game.rangeMax < DesiredFPS THEN game.rangeMax ELSE DesiredFPS
    IN  [maxFPS |-> IF game.maxFPS < next THEN next ELSE 0,
         softShadows |-> game.softShadows]

NoChanges == [maxFPS |-> 0, softShadows |-> FALSE]

\* The report dryRun(options) returns.
dryRun(game, options) ==
    [chat |-> [enabled |-> options.doCleanupChat,
               wouldDelete |->
                   IF options.doCleanupChat
                   THEN Len(SelectSeq(game.messages, LAMBDA m : m = "old")) ELSE 0],
     combats |-> [enabled |-> options.doCleanupInactiveCombats,
                  wouldDelete |->
                      IF options.doCleanupInactiveCombats
                      THEN Len(SelectSeq(game.combats, LAMBDA c : c = "idle")) ELSE 0],
     compendiums |-> [enabled |-> options.doRebuildCompendiumIndexes,
                      packs |-> IF options.doRebuildCompendiumIndexes
                                THEN game.packs ELSE 0],
     performance |-> [enabled |-> options.doCorePerformanceTweaks,
                      changes |-> IF options.doCorePerformanceTweaks
                                  THEN previewCorePerformanceChanges(game)
                                  ELSE NoChanges]]

\* _cleanupChat, _cleanupInactiveCombats and _rebuildCompendiumIndexes.
cleanupChat(game) ==
    [game EXCEPT !.messages = SelectSeq(@, LAMBDA m : m # "old")]

cleanupCombats(game) ==
    [game EXCEPT !.combats = SelectSeq(@, LAMBDA c : c # "idle")]

rebuildCompendiumIndexes(game) == [game EXCEPT !.indexed = game.packs]

\* _applyCorePerformanceTweaks: the ceiling of core.maxFPS and the ticker
\* are raised, then the planned changes are set; setThrows is whether
\* game.settings.set throws.
applyCorePerformanceTweaks(game, setThrows) ==
    LET raised == [game EXCEPT
                     !.rangeMax = IF @ < DesiredFPS THEN DesiredFPS ELSE @,
                     !.ticker = IF @ < DesiredFPS THEN DesiredFPS ELSE @]
        planned == previewCorePerformanceChanges(raised)
    IN  IF setThrows THEN raised
        ELSE [raised EXCEPT
                !.maxFPS = IF planned.maxFPS # 0 THEN planned.maxFPS ELSE @,
                !.ticker = IF planned.maxFPS # 0 THEN planned.maxFPS ELSE @,
                !.softShadows = IF planned.softShadows THEN FALSE ELSE @]

\* The world after the four steps of optimize that the options enable.
Optimized(game, options, setThrows) ==
    LET chat == IF options.doCleanupChat THEN cleanupChat(game) ELSE game
        combats == IF options.doCleanupInactiveCombats
                   THEN cleanupCombats(chat) ELSE chat
        indexes == IF options.doRebuildCompendiumIndexes
                   THEN rebuildCompendiumIndexes(combats) ELSE combats
    IN  IF options.doCorePerformanceTweaks
        THEN applyCorePerformanceTweaks(indexes, setThrows) ELSE indexes

GMOnly == [kind |-> "error", value |-> "Optimizer requires GM permissions."]

\* optimize without its test of game.user.isGM.
optimizeAnyUser(game, options, dry, setThrows) ==
    [game |-> IF dry THEN game ELSE Optimized(game, options, setThrows),
     outcome |-> [kind |-> "report", value |-> dryRun(game, options)]]

\* optimize that takes no notice of dryRun.
optimizeNeverDry(game, options, dry, setThrows) ==
    IF ~game.isGM THEN [game |-> game, outcome |-> GMOnly]
    ELSE [game |-> Optimized(game, options, setThrows),
          outcome |-> [kind |-> "report", value |-> dryRun(game, options)]]

\* optimize(options, {dryRun}): the world afterwards and what the call
\* gave, a report or an error.  The fields a real run adds to the report
\* (deleted, indexedPacks, applied, rafFPS) are left out.
optimize(game, options, dry, setThrows) ==
    IF ~game.isGM THEN [game |-> game, outcome |-> GMOnly]
    ELSE IF dry
    THEN [game |-> game,
          outcome |-> [kind |-> "report", value |-> dryRun(game, options)]]
    ELSE [game |-> Optimized(game, options, setThrows),
          outcome |-> [kind |-> "report", value |-> dryRun(game, options)]]

OptInit ==
    /\ RelayIdle
    /\ bridge = Constructed
    /\ host \in { HostIdle @@ [game |-> game] : game \in Worlds }
    /\ call = NoCall

\* A call of service.dryRun(options).
DryRun(options) ==
    /\ call' = [op |-> "dryRun", options |-> options, dryRun |-> TRUE,
                before |-> host.game,
                outcome |-> [kind |-> "report",
                             value |-> dryRun(host.game, options)]]
    /\ UNCHANGED <<relayVars, gen, bridge, host>>

\* A call of service.optimize(options, {dryRun}); game.settings.set can
\* throw only where it is called.
Optimize(options, dry, setThrows) ==
    /\ setThrows => (~dry /\ host.game.isGM /\ options.doCorePerformanceTweaks)
    /\ LET done == optimize(host.game, options, dry, setThrows)
       IN  /\ host' = [host EXCEPT !.game = done.game]
           /\ call' = [op |-> "optimize", options |-> options, dryRun |-> dry,
                       before |-> host.game, outcome |-> done.outcome]
    /\ UNCHANGED <<relayVars, gen, bridge>>

OptNext ==
    \/ \E options \in Options : DryRun(options)
    \/ \E options \in Options, dry, setThrows \in BOOLEAN :
           Optimize(options, dry, setThrows)

OptSpec == OptInit /\ [][OptNext]_vars

(* --------------- generateTornadoEffect called directly ---------------- *)
\* The configs the direct calls are given.
GenConfigs ==
    { JObj([position |-> PositionValue["ok"], parameters |-> ParametersValue(n, l)]) :
        n \in 0..GenMaxParticles, l \in 0..GenMaxLayers }

\* The samples the direct calls draw from: each band's edge and the sample
\* next above it.
GenSamples == {60, 61, 100, 101, 140, 141, 170, 171}

\* The structure of a result: whether the call threw, and the layer of each
\* particle in order.
Shape(result) ==
    [threw |-> result.threw,
     layers |-> IF result.threw THEN <<>>
                ELSE [k \in 1..Len(result.value.particles) |->
                        result.value.particles[k].layer]]

GenInit ==
    /\ readyState = [c \in Conns |-> "CONNECTING"]
    /\ wssClients = {}
    /\ clients = {}
    /\ messageCount = 0
    /\ sent = NoneSent
    /\ last = Event("start", 0, "", "")
    /\ inbound = 0
    /\ proc = Running
    /\ \E config \in GenConfigs :
         gen = [pc |-> "call", config |-> config, rand |-> <<>>,
                result |-> [threw |-> FALSE, value |-> Undefined],
                first |-> [threw |-> FALSE, layers |-> <<>>]]
    /\ BridgeIdle

NoResult == [threw |-> FALSE, value |-> Undefined]

\* One call of generateTornadoEffect(gen.config).
GenCall ==
    /\ gen.pc \in {"call", "call2"}
    /\ \E rand \in [0..(Iterations(gen.config) - 1) -> GenSamples],
          renderTime \in RenderTimes :
         gen' = [gen EXCEPT
                   !.pc = IF gen.pc = "call" THEN "done" ELSE "done2",
                   !.rand = rand,
                   !.result = generateTornadoEffect(gen.config, rand, renderTime)]
    /\ UNCHANGED <<relayVars, bridgeVars>>

\* The caller keeps the structure of the first result and is ready to call
\* again with the same config.
GenKeep ==
    /\ gen.pc = "done"
    /\ gen' = [gen EXCEPT !.pc = "call2", !.rand = <<>>, !.result = NoResult,
                          !.first = Shape(gen.result)]
    /\ UNCHANGED <<relayVars, bridgeVars>>

GenNext == GenCall \/ GenKeep

GenSpec == GenInit /\ [][GenNext]_vars

(* ======================== properties: the relay ======================= *)
\* The connections other than ws that are open.
OpenPeers(ws) == { c \in Conns \ {ws} : readyState[c] = "OPEN" }

\* Whether a connection was sent a message of the given type by the latest
\* handler.
Got(c, type) == \E k \in 1..Len(sent[c]) : sent[c][k].type = type

\* The latest event is a message whose frame decoded to a value.
LastParsed == last.op = "message" /\ JSONParse(last.data).ok

LastValue == JSONParse(last.data).value

\* C1: a valid render request (fire_tornado, particleCount n > 0,
\* spiralLayers l > 0, numeric position) from connection A gives A exactly
\* one effect_rendered message with n particles and no effect_broadcast,
\* and gives every other open connection exactly one effect_broadcast that
\* carries no particle list.
C1_RenderReplyAndBroadcast ==
    \A n \in 1..MaxParticles, l \in 1..MaxLayers :
        (last.op = "message" /\ last.data = RenderFrame("ok", n, l)[1]) =>
            /\ Len(sent[last.conn]) = 1
            /\ sent[last.conn][1].type = "effect_rendered"
            /\ Len(sent[last.conn][1].data.particles) = n
            /\ \A c \in OpenPeers(last.conn) :
                   /\ Len(sent[c]) = 1
                   /\ sent[c][1].type = "effect_broadcast"
                   /\ DOMAIN sent[c][1] \cap {"particles", "data"} = {}
                   /\ "particles" \notin DOMAIN sent[c][1].config.f

\* Witness of C1: a valid render request handled with two other connections
\* open, both of which got the broadcast.
C1_Witness ==
    /\ last.op = "message"
    /\ \E n \in 1..MaxParticles, l \in 1..MaxLayers :
           last.data = RenderFrame("ok", n, l)[1]
    /\ Cardinality(OpenPeers(last.conn)) >= 2
    /\ \A c \in OpenPeers(last.conn) : Got(c, "effect_broadcast")

\* C2: every decoded message that is not the render_effect / fire_tornado
\* pair gives the sender exactly one message, of type response, and gives
\* no other connection anything.
C2_NonRenderEchoedOnce ==
    (LastParsed /\ ~IsRender(LastValue)) =>
        /\ Len(sent[last.conn]) = 1
        /\ sent[last.conn][1].type = "response"
        /\ \A c \in Conns \ {last.conn} : sent[c] = <<>>

\* C3: every frame that parses as JSON (null, numbers, strings and arrays
\* included) and is not the render pair is answered with one echo envelope
\* whose original is the decoded value, whose processed is true and whose
\* port is the listening port.
C3_EchoEnvelope ==
    (LastParsed /\ ~IsRender(LastValue)) =>
        sent[last.conn] =
            << [type |-> "response", original |-> LastValue,
                processed |-> TRUE, port |-> PORT] >>

\* C4: a frame that is not JSON makes the handler send nothing to anyone and
\* leaves every connection's state, the roster and wss.clients as they were,
\* the sender open and in the roster, so the recipients and replies of any
\* later message are those it would have had without the frame.
C4_MalformedDropped ==
    [][ (last'.op = "message" /\ ~JSONParse(last'.data).ok) =>
            /\ sent' = NoneSent
            /\ readyState' = readyState
            /\ readyState'[last'.conn] = "OPEN"
            /\ clients' = clients
            /\ last'.conn \in clients'
            /\ wssClients' = wssClients
            /\ \A ws \in Conns : Recipients(ws)' = Recipients(ws) ]_vars

\* Witness of C4: a frame that is not JSON was handled on a connection that
\* is open, with another connection open beside it.
C4_Witness ==
    /\ last.op = "message"
    /\ last.data \in Garbage
    /\ last.log = "Parse error"
    /\ readyState[last.conn] = "OPEN"
    /\ OpenPeers(last.conn) # {}

\* C5: a connection whose close event has been handled is sent no
\* effect_broadcast by any later handler.
C5_ClosedGetsNoBroadcast ==
    [][ \A c \in Conns :
            readyState[c] = "CLOSED" =>
                \A k \in 1..Len(sent'[c]) : sent'[c][k].type # "effect_broadcast" ]_vars

\* Witness of C5: a render request was broadcast to an open peer while
\* another connection was already closed.
C5_Witness ==
    /\ last.op = "message"
    /\ \E c \in Conns : readyState[c] = "CLOSED"
    /\ \E c \in OpenPeers(last.conn) : Got(c, "effect_broadcast")

\* The connections accepted so far, and those whose close event was handled.
Accepted == { c \in Conns : readyState[c] # "CONNECTING" }

Closed == { c \in Conns : readyState[c] = "CLOSED" }

\* C6: the roster holds exactly the connections accepted and not yet closed,
\* so after N accepts and M closes its size is N - M.
C6_RosterIsAcceptedMinusClosed ==
    /\ clients = Accepted \ Closed
    /\ Cardinality(clients) = Cardinality(Accepted) - Cardinality(Closed)

\* Witness of C6: three accepts and one close, with a message handled and an
\* error event as the latest event.
C6_Witness ==
    /\ Cardinality(Accepted) = 3
    /\ Cardinality(Closed) = 1
    /\ Cardinality(clients) = 2
    /\ messageCount >= 1
    /\ last.op = "error"

\* C7: no effect_rendered reply carries particle data computed with a zero
\* divisor (a layer or radius that is NaN).
C7_NoNaNParticles ==
    \A c \in Conns : \A k \in 1..Len(sent[c]) :
        sent[c][k].type = "effect_rendered" =>
            \A j \in 1..Len(sent[c][k].data.particles) :
                /\ ~sent[c][k].data.particles[j].layer.nan
                /\ ~sent[c][k].data.particles[j].radius.nan

\* C8: whenever the handler sent the effect_rendered reply for a render
\* request, every other open connection was sent the effect_broadcast.
C8_ReplyImpliesBroadcast ==
    (LastParsed /\ Got(last.conn, "effect_rendered")) =>
        \A c \in OpenPeers(last.conn) : Got(c, "effect_broadcast")

(* ================ properties: generateTornadoEffect =================== *)
\* The config of a direct call with particleCount n and spiralLayers l.
GenConfig(n, l) ==
    JObj([position |-> PositionValue["ok"], parameters |-> ParametersValue(n, l)])

GenReturned == gen.pc \in {"done", "done2"}

\* C9: for a valid config (particleCount n > 0, spiralLayers l > 0) the call
\* returns exactly n particles, particle i has layer i mod l, within 0..l-1,
\* and a second call with the same config has the same count and layer
\* sequence whatever values were drawn.
C9_CountAndLayers ==
    \A n \in 1..GenMaxParticles, l \in 1..GenMaxLayers :
        (GenReturned /\ gen.config = GenConfig(n, l)) =>
            /\ ~gen.result.threw
            /\ Len(gen.result.value.particles) = n
            /\ \A k \in 1..n :
                   /\ gen.result.value.particles[k].layer = Fin((k - 1) % l)
                   /\ gen.result.value.particles[k].layer.v \in 0..(l - 1)
            /\ (gen.pc = "done2" => Shape(gen.result) = gen.first)

\* Witness of C9: a second call has returned for a config with more
\* particles than layers and at least two layers, its draws not all equal.
C9_Witness ==
    /\ gen.pc = "done2"
    /\ \E n \in 1..GenMaxParticles, l \in 2..GenMaxLayers :
           /\ n > l
           /\ gen.config = GenConfig(n, l)
           /\ gen.result.value.particles[n].layer = Fin((n - 1) % l)
    /\ \E i, j \in DOMAIN gen.rand : gen.rand[i] # gen.rand[j]

\* The midpoints of 100 equal cells of [0, 1), in units of 1/200: a uniform
\* source puts weight 1/100 on each.
UniformGrid == { 2 * j + 1 : j \in 0..99 }

\* The band weights, in hundredths.
BandWeight ==
    [c \in Colors |->
        CASE c = "#ffffff" -> 15
          [] c = "#ffff99" -> 15
          [] c = "#ffaa00" -> 20
          [] c = "#ff6600" -> 20
          [] c = "#cc3300" -> 30]

C11_CounterCountsEveryMessage ==
    [][ /\ messageCount' = inbound'
        /\ (last'.op = "message" => messageCount' = messageCount + 1)
        /\ (last'.op # "message" => messageCount' = messageCount) ]_vars

\* Witness of C11: two messages were counted, the latest one not JSON, after
\* a connection was closed.
C11_Witness ==
    /\ messageCount = 2
    /\ last.op = "message"
    /\ last.data \in Garbage
    /\ Closed # {}

\* C12: when the handler of a render request reaches the broadcast, every
\* connection that is not open is sent nothing and every other open
\* connection is sent the effect_broadcast.
C12_NonOpenSkipped ==
    (last.op = "message" /\ Renders(last.data)
        /\ Got(last.conn, "effect_rendered") /\ ~LogThrows(LastValue)) =>
        /\ \A c \in Conns : readyState[c] # "OPEN" => sent[c] = <<>>
        /\ \A c \in OpenPeers(last.conn) : Got(c, "effect_broadcast")

\* Witness of C12: a render request was broadcast while a closing connection
\* was still in wss.clients, and an open peer got the broadcast.
C12_Witness ==
    /\ last.op = "message"
    /\ last.log = "Tornado rendered"
    /\ \E c \in wssClients : readyState[c] = "CLOSING" /\ sent[c] = <<>>
    /\ \E c \in OpenPeers(last.conn) : Got(c, "effect_broadcast")

\* What the handler sends the sender of each frame when every colour draw is
\* 40 and the render takes no time, and whether the frame is a render request.
ReplyAlone ==
    [data \in Frames |->
        [reply |-> Handle(data, [i \in 0..(Draws(data) - 1) |-> 40], 0).reply,
         renders |-> Renders(data)]]

\* C13: a message of connection A, whatever its content, leaves the roster,
\* wss.clients, every connection's state and the process as they were, and
\* these are all a later handler reads; it sends the other
\* connections nothing but the effect_broadcast of a render request; and
\* what the sender gets is given by its frame alone: the very reply if the
\* frame is no render request, and whether there is a reply if it is one.
C13_Isolation ==
    [][ last'.op = "message" =>
            /\ clients' = clients
            /\ wssClients' = wssClients
            /\ readyState' = readyState
            /\ proc' = proc
            /\ \A b \in Conns \ {last'.conn} : \A k \in 1..Len(sent'[b]) :
                   /\ sent'[b][k].type = "effect_broadcast"
                   /\ ReplyAlone[last'.data].renders
            /\ LET alone == ReplyAlone[last'.data].reply
               IN  IF ReplyAlone[last'.data].renders
                   THEN /\ Len(sent'[last'.conn]) = Len(alone)
                        /\ \A k \in 1..Len(alone) :
                               sent'[last'.conn][k].type = alone[k].type
                   ELSE sent'[last'.conn] = alone
      ]_vars

\* Witness of C13: a render request without a config was handled as the
\* second message, with two other connections open, and nobody was sent
\* anything.
C13_Witness ==
    /\ last.op = "message"
    /\ last.data = RenderHead \o "}"
    /\ messageCount = 2
    /\ Cardinality(OpenPeers(last.conn)) = 2
    /\ sent = NoneSent

\* C14: the connections sent the effect_broadcast of a render request that
\* was answered are exactly the other connections open when it is handled,
\* and no counter increment is lost.
C14_RecipientsAreOpenPeers ==
    (last.op = "message" /\ Got(last.conn, "effect_rendered")) =>
        /\ { c \in Conns : Got(c, "effect_broadcast") } = OpenPeers(last.conn)
        /\ messageCount = inbound

\* C15 as claimed: after an error event the connection is in the roster and
\* is a recipient of every other connection's broadcast.
C15_ErrorKeepsRecipient ==
    last.op = "error" =>
        /\ last.conn \in clients
        /\ \A w \in Conns \ {last.conn} : last.conn \in Recipients(w)

\* C15: an error event changes only the log: roster, wss.clients, every
\* connection's state, the counter and the process are unchanged and nothing
\* is sent; the connection is in the roster, from which only its own close
\* event removes it, and it is a broadcast recipient exactly if it is open.
C15_ErrorChangesNothing ==
    [][ /\ last'.op = "error" =>
              /\ clients' = clients
              /\ wssClients' = wssClients
              /\ readyState' = readyState
              /\ messageCount' = messageCount
              /\ proc' = proc
              /\ sent' = NoneSent
              /\ last'.conn \in clients'
              /\ \A w \in Conns \ {last'.conn} :
                     (last'.conn \in Recipients(w)')
                         = (readyState'[last'.conn] = "OPEN")
        /\ \A c \in clients \ clients' : last'.op = "close" /\ last'.conn = c
      ]_vars

\* Witness of C15: an error event on a connection that is closing, still in
\* the roster, with another connection open.
C15_Witness ==
    /\ last.op = "error"
    /\ readyState[last.conn] = "CLOSING"
    /\ last.conn \in clients
    /\ OpenPeers(last.conn) # {}

\* C16: the handler of a message leaves the roster and the set of open
\* connections as they were, and the state it leaves (roster, wss.clients,
\* connection states, counter plus one) holds nothing of the effect it
\* generated.
C16_MessageKeepsRoster ==
    [][ last'.op = "message" =>
            /\ clients' = clients
            /\ { c \in Conns : readyState'[c] = "OPEN" }
                   = { c \in Conns : readyState[c] = "OPEN" }
            /\ <<wssClients, readyState, proc, gen>>'
                   = <<wssClients, readyState, proc, gen>>
            /\ messageCount' = messageCount + 1 ]_vars

\* Witness of C16: a render request was answered with particles while the
\* roster held three connections.
C16_Witness ==
    /\ last.op = "message"
    /\ Cardinality(clients) = 3
    /\ \E k \in 1..Len(sent[last.conn]) :
           /\ sent[last.conn][k].type = "effect_rendered"
           /\ Len(sent[last.conn][k].data.particles) >= 1

\* C17: the effect_rendered reply carries the request's effectId and the
\* renderTime of its data, and the effect_broadcast carries the request's
\* config.position as position and its config.parameters, which hold no
\* particles, as config.
C17_ReplyAndBroadcastFields ==
    (last.op = "message" /\ Renders(last.data)) =>
        \A c \in Conns : \A k \in 1..Len(sent[c]) :
            /\ sent[c][k].type = "effect_rendered" =>
                   /\ sent[c][k].effectId = Get(LastValue, "effectId")
                   /\ sent[c][k].renderTime = sent[c][k].data.renderTime
            /\ sent[c][k].type = "effect_broadcast" =>
                   /\ sent[c][k].position
                          = Get(Get(LastValue, "config"), "position")
                   /\ sent[c][k].config
                          = Get(Get(LastValue, "config"), "parameters")
                   /\ "particles" \notin DOMAIN sent[c][k].config.f

\* Witness of C17: a render request with effectId 7 was answered with a
\* renderTime of 3 and broadcast to an open peer.
C17_Witness ==
    /\ last.op = "message"
    /\ \E k \in 1..Len(sent[last.conn]) :
           /\ sent[last.conn][k].type = "effect_rendered"
           /\ sent[last.conn][k].effectId = JNum(7)
           /\ sent[last.conn][k].renderTime = 3
    /\ \E c \in OpenPeers(last.conn) : Got(c, "effect_broadcast")

\* C21 as claimed: at every broadcast the connections sent the broadcast are
\* the members of the roster other than the sender.
C21_RecipientsAreRosterPeers ==
    (last.op = "message" /\ last.log = "Tornado rendered") =>
        { c \in Conns : Got(c, "effect_broadcast") } = clients \ {last.conn}

\* C21: the roster and wss.clients hold the same connections; at every
\* broadcast the connections sent the broadcast are the members of the
\* roster other than the sender that are open; and no connection outside
\* the roster is sent anything.
C21_RosterAgreesWithWssClients ==
    /\ clients = wssClients
    /\ (last.op = "message" /\ last.log = "Tornado rendered") =>
           { c \in Conns : Got(c, "effect_broadcast") }
               = { c \in clients \ {last.conn} : readyState[c] = "OPEN" }
    /\ \A c \in Conns \ clients : sent[c] = <<>>

\* Witness of C21: a broadcast reached one open member of the roster while
\* another member of the roster was closing and got nothing.
C21_Witness ==
    /\ last.op = "message"
    /\ last.log = "Tornado rendered"
    /\ clients = Conns
    /\ Cardinality({ c \in Conns : Got(c, "effect_broadcast") }) = 1
    /\ \E c \in clients \ {last.conn} : readyState[c] = "CLOSING"

(* ================== properties: shutdown and errors =================== *)
\* C18: after the termination signal no connection is added to the roster,
\* the process exits with status 0 only from the callback of the listener's
\* completed close, and once the signal was handled the process eventually
\* exits.
C18_SigintStopsAcceptingThenExits ==
    /\ [][ /\ proc.phase = "closing" => clients' \subseteq clients
           /\ proc' = Exited(0) => (proc = Closing /\ last'.op = "listener closed")
         ]_vars
    /\ (proc.phase = "closing") ~> (proc.phase = "exited")

\* C19: a server error makes the process exit with status 1, no event is
\* handled after the process has exited, and a connection's error event
\* leaves the process as it was.
C19_ServerErrorFatal ==
    [][ /\ proc.phase # "exited"
        /\ last'.op = "server error" => proc' = Exited(1)
        /\ last'.op = "error" => (proc' = proc /\ proc'.phase # "exited")
      ]_vars

\* Witness of C19: the process exited with status 1 on a server error after
\* a message was handled, with open connections in the roster.
C19_Witness ==
    /\ proc = Exited(1)
    /\ last.op = "server error"
    /\ messageCount >= 1
    /\ \E c \in clients : readyState[c] = "OPEN"

\* C20 as claimed: accept is enabled in every state.
C20_AcceptAlwaysEnabled ==
    \A ws \in Conns : readyState[ws] = "CONNECTING" => ENABLED Accept(ws)

\* C20: while the server listens, accept is enabled for every connection
\* not yet accepted, whatever the size of the roster.
C20_AcceptEnabledWhileListening ==
    Listening =>
        \A ws \in Conns : readyState[ws] = "CONNECTING" => ENABLED Accept(ws)

\* Witness of C20: every connection of the model was accepted and is open
\* and in the roster, the latest added to a roster of MaxConns - 1.
C20_Witness ==
    /\ last.op = "accept"
    /\ Cardinality(clients) = MaxConns
    /\ \A c \in Conns : readyState[c] = "OPEN"

(* ============ properties: the structure of a rendered effect ========== *)
\* Whether fraction a is less than fraction b (denominators positive).
RatLess(a, b) == a.num * b.den < b.num * a.den

\* C22: for a valid config (particleCount n > 0, spiralLayers l > 0) the
\* spiral radius of every particle is 40 + 60 * layer and its visual radius
\* is 8 - 4 * layer / l, which lies in (4, 8], is equal for particles of one
\* layer and is strictly smaller for a particle of a higher layer.
C22_SpiralAndVisualRadius ==
    \A n \in 1..GenMaxParticles, l \in 1..GenMaxLayers :
        (GenReturned /\ gen.config = GenConfig(n, l)) =>
            \A k \in 1..n :
                LET p == gen.result.value.particles[k]
                IN  /\ p.x.spiralRadius = Fin(40 + 60 * p.layer.v)
                    /\ ~p.radius.nan
                    /\ p.radius.den > 0
                    /\ p.radius.num * l = (8 * l - 4 * p.layer.v) * p.radius.den
                    /\ 4 * p.radius.den < p.radius.num
                    /\ p.radius.num <= 8 * p.radius.den
                    /\ \A m \in 1..n :
                           LET q == gen.result.value.particles[m]
                           IN  /\ p.layer = q.layer =>
                                      (~RatLess(p.radius, q.radius)
                                          /\ ~RatLess(q.radius, p.radius))
                               /\ p.layer.v < q.layer.v =>
                                      RatLess(q.radius, p.radius)

\* Witness of C22: a call returned three particles on three layers, with
\* spiral radii 40, 100 and 160 and the last visual radius 16/3.
C22_Witness ==
    /\ GenReturned
    /\ gen.config = GenConfig(3, 3)
    /\ gen.result.value.particles[1].x.spiralRadius = Fin(40)
    /\ gen.result.value.particles[2].x.spiralRadius = Fin(100)
    /\ gen.result.value.particles[3].x.spiralRadius = Fin(160)
    /\ gen.result.value.particles[1].radius.num = 8 * gen.result.value.particles[1].radius.den
    /\ 3 * gen.result.value.particles[3].radius.num
           = 16 * gen.result.value.particles[3].radius.den

\* C23: the returned effect's particleCount is the length of its particles
\* list, its spiralLayers, duration, colorScheme and position are those of
\* the config, its particle ids are 0..N-1 in order, and its quality flags
\* are the fixed constants.
C23_EffectSelfConsistent ==
    (GenReturned /\ ~gen.result.threw) =>
        LET value == gen.result.value
            parameters == Get(gen.config, "parameters")
        IN  /\ value.particleCount = JNum(Len(value.particles))
            /\ value.spiralLayers = Get(parameters, "spiralLayers")
            /\ value.duration = Get(parameters, "duration")
            /\ value.duration = JNum(5)
            /\ value.colorScheme = Get(parameters, "colorScheme")
            /\ value.colorScheme = JStr("fire")
            /\ value.position = Get(gen.config, "position")
            /\ \A k \in 1..Len(value.particles) : value.particles[k].id = k - 1
            /\ value.flags = [physics |-> TRUE, lighting |-> TRUE,
                              renderQuality |-> "ultra", gpuAccelerated |-> TRUE,
                              serverRendered |-> TRUE]

\* Witness of C23: a second call returned three particles with ids 0, 1, 2
\* for a config of three particles.
C23_Witness ==
    /\ gen.pc = "done2"
    /\ ~gen.result.threw
    /\ Get(Get(gen.config, "parameters"), "particleCount") = JNum(3)
    /\ Len(gen.result.value.particles) = 3
    /\ gen.result.value.particles[3].id = 2

\* The number of returned particles whose layer is j.
InLayer(j) ==
    Cardinality({ k \in 1..Len(gen.result.value.particles) :
                    gen.result.value.particles[k].layer = Fin(j) })

\* C24: for particleCount n and spiralLayers l > 0 every layer holds
\* floor(n / l) or ceil(n / l) particles, any two layers differ by at most
\* one, and every layer below min(n, l) holds at least one.
C24_EvenSpread ==
    \A n \in 0..GenMaxParticles, l \in 1..GenMaxLayers :
        (GenReturned /\ gen.config = GenConfig(n, l)) =>
            /\ ~gen.result.threw
            /\ \A j \in 0..(l - 1) :
                   /\ InLayer(j) \in {n \div l, (n + l - 1) \div l}
                   /\ j < n => InLayer(j) >= 1
                   /\ \A i \in 0..(l - 1) :
                          InLayer(i) - InLayer(j) \in {-1, 0, 1}

\* Witness of C24: three particles over two layers, two in layer 0 and one
\* in layer 1.
C24_Witness ==
    /\ GenReturned
    /\ gen.config = GenConfig(3, 2)
    /\ InLayer(0) = 2
    /\ InLayer(1) = 1

(* ======================= properties: the bridge ======================= *)
\* The positions healthy in the bridge, in order, and a getNextInstance
\* call's list of positions returned since the healthy set last changed.
HealthyNow == getHealthyInstances(bridge.vqInstances)

\* C25: getNextInstance returns null when no instance is healthy and
\* otherwise an instance that is healthy, with currentInstanceIndex inside
\* the healthy list (also at the first call after the healthy set changed);
\* while the k healthy instances stay the same, any k consecutive calls
\* return each of them exactly once.
C25_RoundRobin ==
    call.op = "getNextInstance" =>
        LET k == Len(HealthyNow)
            n == Len(call.streak)
        IN  /\ n >= 1
            /\ (k = 0 => call.streak[n] = 0)
            /\ (k > 0 => /\ call.streak[n] \in Range(HealthyNow)
                         /\ bridge.currentInstanceIndex \in 0..(k - 1))
            /\ \A i \in 1..n :
                   (k > 0 /\ i + k - 1 <= n) =>
                       /\ { call.streak[j] : j \in i..(i + k - 1) } = Range(HealthyNow)
                       /\ \A j1, j2 \in i..(i + k - 1) :
                              call.streak[j1] = call.streak[j2] => j1 = j2

\* Witness of C25: three instances of which two are healthy, and three
\* consecutive calls of which the third returns what the first returned.
C25_Witness ==
    /\ call.op = "getNextInstance"
    /\ Len(bridge.vqInstances) = 3
    /\ Len(HealthyNow) = 2
    /\ Len(call.streak) >= 3
    /\ call.streak[1] = call.streak[3]
    /\ call.streak[1] # call.streak[2]

\* The healthy instances whose name differs from that of instance.
OtherNamed(instance) ==
    { i \in Range(HealthyNow) :
        bridge.vqInstances[i].name # bridge.vqInstances[instance].name }

\* C26: an executeRoundRobin call with no healthy instance fails with 'No
\* VQ instances available' and runs nothing; when the task fails on the
\* chosen instance and a healthy instance of another name exists, the task
\* is run once more, on such an instance, failovers grows by one and the
\* outcome is the retry's; when none exists the first error is rethrown;
\* the task is never run more than twice.
C26_Failover ==
    [][ /\ (call'.op = "executeRoundRobin" /\ call'.n # call.n) =>
              /\ (HealthyNow = <<>>) <=> (call'.pc = "done")
              /\ HealthyNow = <<>> =>
                     /\ call'.runs = <<>>
                     /\ call'.outcome = NoInstances
              /\ HealthyNow # <<>> =>
                     /\ Len(call'.runs) = 1
                     /\ call'.runs[1] \in Range(HealthyNow)
              /\ bridge'.failovers = bridge.failovers
        /\ (Awaiting /\ call'.pc = "done") =>
              LET instance == call.runs[1]
              IN  /\ call'.task[1] = "ok" =>
                         /\ call'.runs = <<instance>>
                         /\ call'.outcome = Resolved(instance, "ok")
                         /\ bridge'.failovers = bridge.failovers
                  /\ (call'.task[1] = "fail" /\ OtherNamed(instance) # {}) =>
                         /\ Len(call'.runs) = 2
                         /\ call'.runs[1] = instance
                         /\ call'.runs[2] \in OtherNamed(instance)
                         /\ Len(call'.task) = 2
                         /\ bridge'.failovers = bridge.failovers + 1
                         /\ call'.outcome =
                                IF call'.task[2] = "ok"
                                THEN Resolved(call'.runs[2], "ok")
                                ELSE Rejected(call'.runs[2], "retry failed")
                  /\ (call'.task[1] = "fail" /\ OtherNamed(instance) = {}) =>
                         /\ call'.runs = <<instance>>
                         /\ call'.outcome = Rejected(instance, "task failed")
                         /\ bridge'.failovers = bridge.failovers
        /\ (~Awaiting /\ call'.op # "executeRoundRobin") =>
              bridge'.failovers = bridge.failovers
      ]_vars

\* Witness of C26: a call whose task failed on the chosen instance and
\* failed again on the instance it was retried on.
C26_Witness ==
    /\ call.op = "executeRoundRobin"
    /\ call.pc = "done"
    /\ Len(call.runs) = 2
    /\ call.task = <<"fail", "fail">>
    /\ call.outcome.kind = "error"
    /\ bridge.failovers >= 1

\* C27: an executeParallel call over two or more healthy instances starts
\* the task on each of them, and when the task succeeds on at least one it
\* resolves with the result of a task that succeeded.
C27_SuccessDecides ==
    (call.op = "executeParallel" /\ Len(call.runs) >= 2) =>
        /\ call.runs = HealthyNow
        /\ (\E i \in Range(call.runs) : call.task[i] = "ok") =>
               /\ call.outcome.kind = "result"
               /\ call.outcome.value = "ok"
               /\ call.task[call.outcome.by] = "ok"

\* The slices an executeSharded call gave its instances are contiguous and
\* disjoint and together are the whole shard list, one slice for each
\* healthy instance.
ShardsPartitioned ==
    (call.op = "executeSharded" /\ Len(call.runs) >= 2) =>
        LET joined[i \in 0..Len(call.given)] ==
                IF i = 0 THEN <<>> ELSE joined[i - 1] \o call.given[i]
        IN  /\ call.runs = HealthyNow
            /\ Len(call.given) = Len(call.runs)
            /\ joined[Len(call.given)] = call.shards
            /\ \A k1, k2 \in DOMAIN call.shards :
                   call.shards[k1] = call.shards[k2] => k1 = k2

\* The results of the instances a sharded task did not fail on, one after
\* the other in instance order.
ShardedResults ==
    LET joined[i \in 0..Len(call.runs)] ==
            IF i = 0 THEN <<>>
            ELSE IF call.task[call.runs[i]] = "fail" THEN joined[i - 1]
            ELSE joined[i - 1] \o Returned(call.task[call.runs[i]], call.given[i])
    IN  joined[Len(call.runs)]

\* C28: an executeSharded call over a shard list and two or more healthy
\* instances gives every shard to exactly one instance, runs the task once
\* on each healthy instance, and resolves with the results of the instances
\* that did not fail, concatenated in instance order.
C28_ShardedPartitionAndResult ==
    (call.op = "executeSharded" /\ Len(call.runs) >= 2) =>
        /\ ShardsPartitioned
        /\ call.outcome = Resolved(0, ShardedResults)

HealthLog(name) ==
    SelectSeq(bridge.eventLog,
              LAMBDA e : /\ e.data = name
                         /\ e.type \in {"VQ_INSTANCE_DOWN", "VQ_INSTANCE_RECOVERED"})

\* C32: a health check logs VQ_INSTANCE_DOWN for exactly the instances it
\* finds unhealthy that were healthy, VQ_INSTANCE_RECOVERED for exactly
\* those it finds healthy that were not, and nothing else; the two events of
\* an instance alternate, the first being DOWN.
C32_HealthChangesLogged ==
    /\ [][call'.op = "performHealthChecks" =>
            LET changed[i \in 0..Len(bridge.vqInstances)] ==
                    IF i = 0 THEN <<>>
                    ELSE IF bridge.vqInstances[i].healthy
                            /\ ~bridge'.vqInstances[i].healthy
                    THEN Append(changed[i - 1],
                                [type |-> "VQ_INSTANCE_DOWN",
                                 data |-> bridge.vqInstances[i].name])
                    ELSE IF ~bridge.vqInstances[i].healthy
                            /\ bridge'.vqInstances[i].healthy
                    THEN Append(changed[i - 1],
                                [type |-> "VQ_INSTANCE_RECOVERED",
                                 data |-> bridge.vqInstances[i].name])
                    ELSE changed[i - 1]
            IN  /\ bridge'.eventLog = bridge.eventLog \o changed[Len(bridge.vqInstances)]
                /\ \A i \in DOMAIN bridge.vqInstances :
                       bridge'.vqInstances[i].healthy =
                           (bridge.vqInstances[i].ref = "object")
         ]_vars
    /\ [][call'.op # "performHealthChecks" =>
            \A name \in Range(vqChecks) : HealthLog(name)' = HealthLog(name)]_vars
    /\ [](\A i \in DOMAIN bridge.vqInstances :
            LET events == HealthLog(bridge.vqInstances[i].name)
            IN  /\ \A k \in DOMAIN events :
                       events[k].type = IF k % 2 = 1 THEN "VQ_INSTANCE_DOWN"
                                        ELSE "VQ_INSTANCE_RECOVERED"
                /\ bridge.vqInstances[i].healthy <=> (Len(events) % 2 = 0))

\* Witness of C32: an instance went down and recovered, and the log holds
\* its two events in this order.
C32_Witness ==
    /\ call.op = "performHealthChecks"
    /\ \E i \in DOMAIN bridge.vqInstances :
           /\ bridge.vqInstances[i].healthy
           /\ Len(HealthLog(bridge.vqInstances[i].name)) = 2

\* An emitModuleEvent call for a module id that is not registered returned
\* false, called no callback, ran the forwarding task nowhere and left its
\* event in no module's events and not in the event log.
EmitIgnoresUnregistered ==
    (call.op = "emitModuleEvent" /\ call.module = 0) =>
        /\ call.returned = "false"
        /\ ~call.called
        /\ call.given = <<>>
        /\ \A i \in DOMAIN bridge.modulesConnected :
               \A k \in DOMAIN bridge.modulesConnected[i].events :
                   bridge.modulesConnected[i].events[k] # call.event
        /\ \A k \in DOMAIN bridge.eventLog :
               bridge.eventLog[k].type = "MODULE_EVENT" =>
                   bridge.eventLog[k].data # call.event

\* An emitModuleEvent call for a registered module left its event last in
\* the events of the first module of that id, and in no other module's, and
\* last in the event log.
EmitAppends ==
    (call.op = "emitModuleEvent" /\ call.module # 0) =>
        /\ \A i \in DOMAIN bridge.modulesConnected :
               LET events == bridge.modulesConnected[i].events
               IN  IF i = call.module
                   THEN /\ events # <<>>
                        /\ events[Len(events)] = call.event
                   ELSE \A k \in DOMAIN events : events[k] # call.event
        /\ bridge.eventLog[Len(bridge.eventLog)] =
               [type |-> "MODULE_EVENT", data |-> call.event]

\* C33: emitModuleEvent for an id that is not registered returns false and
\* appends, calls and forwards nothing; for a registered module it appends
\* the event to the module's events and to the event log and returns true,
\* also when the callback throws or the forwarding fails.
C33_EmitModuleEvent ==
    /\ EmitIgnoresUnregistered
    /\ EmitAppends
    /\ (call.op = "emitModuleEvent" /\ call.module # 0) => call.returned = "true"

\* C34: optimize called by a user who is not a GM throws 'Optimizer
\* requires GM permissions.' and leaves the world as it was: no message and
\* no combat deleted, no index fetched, no setting and no ticker changed.
C34_GMOnly ==
    (call.op = "optimize" /\ ~call.before.isGM) =>
        /\ call.outcome.kind = "error"
        /\ call.outcome.value = "Optimizer requires GM permissions."
        /\ host.game = call.before

\* Witness of C34: a player asked for a real run with every option set in a
\* world with an old message, and the message is still there.
C34_Witness ==
    /\ call.op = "optimize"
    /\ ~call.dryRun
    /\ ~host.game.isGM
    /\ \A flag \in DOMAIN call.options : call.options[flag]
    /\ \E k \in DOMAIN host.game.messages : host.game.messages[k] = "old"
    /\ call.outcome.kind = "error"

\* C35: after dryRun(options) and after optimize(options, {dryRun: true})
\* the world is as it was before the call, for every combination of the
\* option flags, and a GM is given the report.
C35_DryRunChangesNothing ==
    (call.op \in {"dryRun", "optimize"} /\ call.dryRun) =>
        /\ host.game = call.before
        /\ (call.op = "dryRun" \/ call.before.isGM) =>
               /\ call.outcome.kind = "report"
               /\ call.outcome.value = dryRun(call.before, call.options)

\* Witness of C35: a GM's dry run of optimize with every option set, in a
\* world where a real run would delete a message and a combat, fetch an
\* index and change both settings; all of it is still as it was.
C35_Witness ==
    /\ call.op = "optimize"
    /\ call.dryRun
    /\ host.game.isGM
    /\ \A flag \in DOMAIN call.options : call.options[flag]
    /\ call.outcome.kind = "report"
    /\ call.outcome.value.chat.wouldDelete = 1
    /\ call.outcome.value.combats.wouldDelete = 1
    /\ call.outcome.value.performance.changes.maxFPS = 120
    /\ \E k \in DOMAIN host.game.messages : host.game.messages[k] = "old"
    /\ \E k \in DOMAIN host.game.combats : host.game.combats[k] = "idle"
    /\ host.game.packs = 1
    /\ host.game.indexed = 0
    /\ host.game.maxFPS = 60
    /\ host.game.softShadows

\* The instances connected under a name.
Named(name) == { i \in DOMAIN bridge.vqInstances : bridge.vqInstances[i].name = name }

\* C30: the discovery polling always stops; a tick clears the timer exactly
\* if it sees two or more connected instances (and then has run
\* optimizeLoadBalancing) or runs more than 10 seconds after the first
\* tick; polling connects no second instance under 'VQ1' or 'VQ2'; and once
\* the timer is cleared no instance is connected.
C30_PollingStops ==
    /\ [](call.op = "tick" =>
            /\ bridge.initTime # 0
            /\ (host.checkInterval = "cleared") <=>
                   \/ Len(bridge.vqInstances) >= 2
                   \/ host.now - bridge.initTime > 10000
            /\ Len(bridge.vqInstances) >= 2 =>
                   bridge.loadBalanceMode = optimizeLoadBalancing(bridge.vqInstances))
    /\ [](\A name \in {"VQ1", "VQ2"} : Cardinality(Named(name)) <= 1)
    /\ [][ /\ host.checkInterval = "cleared" =>
                 /\ Len(bridge'.vqInstances) = Len(bridge.vqInstances)
                 /\ host'.checkInterval = "cleared"
           /\ (call'.op = "tick" /\ host'.now # host.now) =>
                 bridge'.initTime =
                     IF bridge.initTime = 0 THEN host'.now ELSE bridge.initTime
         ]_vars
    /\ (host.checkInterval = "running") ~> (host.checkInterval = "cleared")

\* Witness of C30: a tick more than 10 seconds after the first one cleared
\* the timer with a single instance connected, under 'VQ2'.
C30_Witness ==
    /\ call.op = "tick"
    /\ host.checkInterval = "cleared"
    /\ Len(bridge.vqInstances) = 1
    /\ bridge.vqInstances[1].name = "VQ2"
    /\ host.now - bridge.initTime > 10000

\* C29: the event log never holds more than 1000 events; the push that
\* would make it 1001 leaves the 500 most recent; the log is the most recent
\* events logged, contiguous and in order; and eventLogHealth is 'pass'.
C29_EventLogBounded ==
    /\ Len(bridge.eventLog) <= 1000
    /\ Len(bridge.eventLog) <= call.n
    /\ \A k \in 1..Len(bridge.eventLog) :
           bridge.eventLog[k].data = call.n - Len(bridge.eventLog) + k
    /\ (call.n = 1001 => Len(bridge.eventLog) = 500)
    /\ (call.n = 1000 => Len(bridge.eventLog) = 1000)
    /\ eventLogHealth = "pass"

\* Witness of C29: the 1001st event was just logged and the log holds the
\* events 502..1001.
C29_Witness ==
    /\ call.n = 1001
    /\ Len(bridge.eventLog) = 500
    /\ bridge.eventLog[1].data = 502
    /\ bridge.eventLog[500].data = 1001

====
